---- MODULE Spec2Model ----
(***************************************************************************)
(* The PriceOracle contract (src/README.md, lines 87-380) as a state       *)
(* machine: its storage, its event log, and one action per external        *)
(* function.  Byte strings are modelled at the granularity of the 32-byte  *)
(* ABI word: a bytes/string value is its byte length and its words.        *)
(***************************************************************************)
EXTENDS Integers, Sequences, FiniteSets, TLC

\* ------------------------------------------------------------------ bounds
\* Stand-in for type(uint256).max: the largest value a uint256 word holds.
Uint256Max == 100000
\* block.timestamp of the first block the model looks at.
GenesisTime == 10000
\* How many accepted updates a run of update after update holds.
MaxUpdates == 2
\* Stand-in for the 53 significand bits of a JavaScript Number.
SignificandBits == 13
\* Stand-in for the 8 decimals of a price: prices are integers scaled by 10^2.
PriceDecimals == 2
\* Calls of fetchAndUpdatePrice in progress at once.
MaxCycles == 2
\* Interval timers armed, or about to be, at once.
MaxTimers == 2
\* How many times the block timestamp advances.
MaxTicks == 1
\* Length of the event log beyond which no further transaction is sent.
MaxEvents == 6

\* --------------------------------------------------------- program constants
MAX_PRICE_AGE == 3600
ATTESTATION_MAX_AGE == 300
\* Bytes in one ABI word.
WORD == 32

\* ------------------------------------------------------------------ byte strings
EmptyBytes == [len |-> 0, words |-> <<>>]

\* The words a byte string of len bytes occupies once padded.
PadWords(len) == (len + WORD - 1) \div WORD

\* calldataload / mload at a word-aligned byte offset.
WordAt(data, off) == data.words[(off \div WORD) + 1]

\* Identities: accounts and ROFL app ids (strings).
OwnerAddr == "owner"
OracleA == "A"
OracleB == "B"
ZeroAddr == "0x0"
Addresses == {OwnerAddr, OracleA, OracleB}

AppP1 == [len |-> 13, words |-> <<11>>]
AppP2 == [len |-> 12, words |-> <<12>>]
AppIds == {AppP1, AppP2}

\* The opaque parts of an attestation: source label, TEE quote, signature.
Opaque1 == [source |-> [len |-> 9, words |-> <<21>>], teeQuote |-> [len |-> 2, words |-> <<31>>], signature |-> 41]
Opaque2 == [source |-> [len |-> 40, words |-> <<22, 23>>], teeQuote |-> EmptyBytes, signature |-> 42]
Opaques == {Opaque1, Opaque2}

\* ------------------------------------------------------------------ ABI encoding
\* The tail of a dynamic value: its length word, then its padded data.
EncodeDyn(b) == <<b.len>> \o b.words

\* AbiCoder.encode(["uint256","uint256","string"], [price, timestamp, source])
AbiEncodePriceData(price, timestamp, source) ==
    LET ws == <<price, timestamp, 3 * WORD>> \o EncodeDyn(source)
    IN  [len |-> WORD * Len(ws), words |-> ws]

\* AbiCoder.encode(["string","uint256","bytes","bytes","bytes32"], [...])
AbiEncodeAttestation(appId, attestationTimestamp, priceDataBytes, teeQuote, signature) ==
    LET t1 == EncodeDyn(appId)
        t2 == EncodeDyn(priceDataBytes)
        t3 == EncodeDyn(teeQuote)
        o1 == 5 * WORD
        o2 == o1 + WORD * Len(t1)
        o3 == o2 + WORD * Len(t2)
        ws == <<o1, attestationTimestamp, o2, o3, signature>> \o t1 \o t2 \o t3
    IN  [len |-> WORD * Len(ws), words |-> ws]

\* The four-field envelope (producerId: string, attestedAt: uint256,
\* payload: bytes, proof: bytes), ABI-encoded.
AbiEncodeEnvelope(producerId, attestedAt, payload, proof) ==
    LET t1 == EncodeDyn(producerId)
        t2 == EncodeDyn(payload)
        t3 == EncodeDyn(proof)
        o1 == 4 * WORD
        o2 == o1 + WORD * Len(t1)
        o3 == o2 + WORD * Len(t2)
        ws == <<o1, attestedAt, o2, o3>> \o t1 \o t2 \o t3
    IN  [len |-> WORD * Len(ws), words |-> ws]

\* The envelope the off-chain side builds for one observation.
Envelope(appId, attestationTimestamp, price, timestamp, opq) ==
    AbiEncodeAttestation(appId, attestationTimestamp,
                         AbiEncodePriceData(price, timestamp, opq.source),
                         opq.teeQuote, opq.signature)

\* ------------------------------------------------------------------ ABI decoding
DecodeFail == [ok |-> FALSE]

\* abi.decode of one string/bytes whose tail starts at byte offset off of data:
\* the length word must lie inside data, and so must length bytes after it.
AbiDecodeDyn(data, off) ==
    IF off + (WORD - 1) >= data.len
    THEN DecodeFail
    ELSE LET length == WordAt(data, off)
         IN  IF off + WORD + length > data.len
             THEN DecodeFail
             ELSE [ok |-> TRUE,
                   val |-> [len |-> length,
                            words |-> SubSeq(data.words, (off \div WORD) + 2,
                                             (off \div WORD) + 1 + PadWords(length))]]

\* abi.decode(priceDataBytes, (uint256, uint256, string))
AbiDecodePriceData(pd) ==
    IF pd.len < 3 * WORD
    THEN DecodeFail
    ELSE LET s == AbiDecodeDyn(pd, WordAt(pd, 2 * WORD))
         IN  IF ~s.ok THEN DecodeFail
             ELSE [ok |-> TRUE, price |-> WordAt(pd, 0),
                   dataTimestamp |-> WordAt(pd, WORD), source |-> s.val]

\* _decodeAttestation: the outer tuple, then the price data tuple. abi.decode
\* follows each offset word wherever it points inside the data.
_decodeAttestation_Canonical(attestation) ==
    IF attestation.len < 5 * WORD \/ WordAt(attestation, 0) # 5 * WORD
    THEN DecodeFail
    ELSE LET a == AbiDecodeDyn(attestation, WordAt(attestation, 0))
             p == AbiDecodeDyn(attestation, WordAt(attestation, 2 * WORD))
             q == AbiDecodeDyn(attestation, WordAt(attestation, 3 * WORD))
         IN  IF ~a.ok \/ ~p.ok \/ ~q.ok
             THEN DecodeFail
             ELSE LET d == AbiDecodePriceData(p.val)
                  IN  IF ~d.ok THEN DecodeFail
                      ELSE [ok |-> TRUE,
                            appId |-> a.val,
                            attestationTimestamp |-> WordAt(attestation, WORD),
                            price |-> d.price,
                            dataTimestamp |-> d.dataTimestamp,
                            source |-> d.source,
                            teeQuote |-> q.val,
                            signature |-> WordAt(attestation, 4 * WORD)]
_decodeAttestation(attestation) ==
    IF attestation.len < 5 * WORD
    THEN DecodeFail
    ELSE LET a == AbiDecodeDyn(attestation, WordAt(attestation, 0))
             p == AbiDecodeDyn(attestation, WordAt(attestation, 2 * WORD))
             q == AbiDecodeDyn(attestation, WordAt(attestation, 3 * WORD))
         IN  IF ~a.ok \/ ~p.ok \/ ~q.ok
             THEN DecodeFail
             ELSE LET d == AbiDecodePriceData(p.val)
                  IN  IF ~d.ok THEN DecodeFail
                      ELSE [ok |-> TRUE,
                            appId |-> a.val,
                            attestationTimestamp |-> WordAt(attestation, WORD),
                            price |-> d.price,
                            dataTimestamp |-> d.dataTimestamp,
                            source |-> d.source,
                            teeQuote |-> q.val,
                            signature |-> WordAt(attestation, 4 * WORD)]

\* ------------------------------------------------------------------ hashing
\* abi.encodePacked(price, timestamp, appId): two full words, then the bytes of appId.
AbiEncodePacked_NoAppId(price, timestamp, appId) == <<price, timestamp>>
AbiEncodePacked(price, timestamp, appId) == <<price, timestamp, appId.len>> \o appId.words

\* keccak256, taken to be collision free: the digest stands for its preimage.
Keccak256(preimage) == <<"keccak256", preimage>>

\* bytes32(0), the dataHash of a record never written.
ZeroHash == <<>>

\* ------------------------------------------------------------------ state
VARIABLES
    latestPrice,        \* PriceData: price, timestamp, oracle, dataHash
    thresholds,         \* ThresholdConfig: upperBound, lowerBound, enabled
    authorizedApps,     \* the app ids mapped to true
    authorizedOracles,  \* the addresses mapped to true
    owner,              \* Ownable's owner
    events,             \* the event log, oldest first
    blockTimestamp,     \* block.timestamp
    ticks,              \* how often blockTimestamp has advanced
    result,             \* the transaction just executed and how it ended
    thresholdEnv,       \* process.env.THRESHOLD_PERCENTAGE of the off-chain oracle
    thresholdPercentage, \* config.oracle.thresholdPercentage
    isRunning,          \* the off-chain PriceOracle's fields
    intervalId,
    lastPrice,
    lastUpdateTime,
    timers,             \* the interval timers that are armed
    starts,             \* the calls of start() awaiting verifyContractConnection
    cycles              \* the calls of fetchAndUpdatePrice in progress, by slot

\* The off-chain oracle: its configuration and its fields.
offchain == <<thresholdEnv, thresholdPercentage, isRunning, intervalId, lastPrice, lastUpdateTime>>

\* What the event loop holds for it: timers and pending asynchronous calls.
runtime == <<timers, starts, cycles>>

vars == <<latestPrice, thresholds, authorizedApps, authorizedOracles, owner,
          events, blockTimestamp, ticks, result, offchain, runtime>>

\* What the contract stores and emits.
contractState == <<latestPrice, thresholds, authorizedApps, authorizedOracles, owner, events>>

NoResult == [op |-> "none"]

\* ------------------------------------------------------------------ events
PriceUpdated(price, timestamp, oracle, appId) ==
    [name |-> "PriceUpdated", price |-> price, timestamp |-> timestamp,
     oracle |-> oracle, appId |-> appId]

ThresholdBreached(price, isUpper, threshold) ==
    [name |-> "ThresholdBreached", price |-> price, isUpper |-> isUpper,
     threshold |-> threshold]

ThresholdConfigured(upperBound, lowerBound, enabled) ==
    [name |-> "ThresholdConfigured", upperBound |-> upperBound,
     lowerBound |-> lowerBound, enabled |-> enabled]

AppAuthorized(appId, authorized) ==
    [name |-> "AppAuthorized", appId |-> appId, authorized |-> authorized]

OracleAuthorized(oracle, authorized) ==
    [name |-> "OracleAuthorized", oracle |-> oracle, authorized |-> authorized]

\* ------------------------------------------------------------------ constructor
\* new PriceOracle(initialAppId, initialOracle) sent by deployer.
Deployed_OwnerIsOracle(deployer, initialAppId, initialOracle) ==
    /\ owner = deployer
    /\ authorizedApps = {initialAppId}
    /\ authorizedOracles = {initialOracle, deployer}
    /\ latestPrice = [price |-> 0, timestamp |-> 0, oracle |-> ZeroAddr, dataHash |-> ZeroHash]
    /\ thresholds = [upperBound |-> 0, lowerBound |-> 0, enabled |-> FALSE]
    /\ events = <<AppAuthorized(initialAppId, TRUE), OracleAuthorized(initialOracle, TRUE)>>
Deployed(deployer, initialAppId, initialOracle) ==
    /\ owner = deployer
    /\ authorizedApps = {initialAppId}
    /\ authorizedOracles = {initialOracle}
    /\ latestPrice = [price |-> 0, timestamp |-> 0, oracle |-> ZeroAddr, dataHash |-> ZeroHash]
    /\ thresholds = [upperBound |-> 0, lowerBound |-> 0, enabled |-> FALSE]
    /\ events = <<AppAuthorized(initialAppId, TRUE), OracleAuthorized(initialOracle, TRUE)>>

\* ------------------------------------------------------------------ optional values
\* A JavaScript value that may be absent (undefined, null, NaN): no element, or one.
Null == <<>>
Some(x) == <<x>>

\* ------------------------------------------------------------------ JavaScript numbers
\* A Number is a binary floating-point value m * 2^e, m of SignificandBits
\* bits (or 0), plus a sign; every operation rounds its exact result to the
\* nearest such value, ties to the even significand.
Pow2(k) == 2 ^ k

FloatZero == [neg |-> FALSE, m |-> 0, e |-> 0]

\* Brings (m + r/d) * 2^e to a significand of SignificandBits bits and rounds.
RECURSIVE RoundLoop(_, _, _, _)
RoundLoop(m, r, d, e) ==
    IF m >= Pow2(SignificandBits)
    THEN RoundLoop(m \div 2, r + (m % 2) * d, 2 * d, e + 1)
    ELSE IF m < Pow2(SignificandBits - 1)
    THEN RoundLoop(2 * m + (IF 2 * r >= d THEN 1 ELSE 0),
                   IF 2 * r >= d THEN 2 * r - d ELSE 2 * r, d, e - 1)
    ELSE LET up == 2 * r > d \/ (2 * r = d /\ m % 2 = 1)
             m1 == IF up THEN m + 1 ELSE m
         IN  IF m1 = Pow2(SignificandBits)
             THEN [neg |-> FALSE, m |-> Pow2(SignificandBits - 1), e |-> e + 1]
             ELSE [neg |-> FALSE, m |-> m1, e |-> e]

\* The Number nearest to (n / d) * 2^e, for integers n and d > 0.
RoundNumber(n, d, e) ==
    IF n = 0 THEN FloatZero
    ELSE IF n < 0 THEN [RoundLoop((-n) \div d, (-n) % d, d, e) EXCEPT !.neg = TRUE]
    ELSE RoundLoop(n \div d, n % d, d, e)

\* The significand with its sign.
Signed(a) == IF a.neg THEN -a.m ELSE a.m

\* a - b
NumberMinus(a, b) ==
    LET e == IF a.m = 0 THEN b.e ELSE IF b.m = 0 THEN a.e ELSE IF a.e < b.e THEN a.e ELSE b.e
    IN  RoundNumber(Signed(a) * Pow2(IF a.m = 0 THEN 0 ELSE a.e - e)
                      - Signed(b) * Pow2(IF b.m = 0 THEN 0 ELSE b.e - e), 1, e)

\* a / b, b not 0
NumberDividedBy(a, b) ==
    [RoundNumber(a.m, b.m, a.e - b.e) EXCEPT !.neg = (a.m # 0 /\ a.neg # b.neg)]

\* a * k for an integer k > 0
NumberTimes(a, k) == [RoundNumber(a.m * k, 1, a.e) EXCEPT !.neg = a.neg]

\* Math.abs(a)
MathAbs(a) == [a EXCEPT !.neg = FALSE]

\* a >= b
NumberGeq(a, b) ==
    LET posGeq(x, y) == IF y.m = 0 THEN TRUE
                        ELSE IF x.m = 0 THEN FALSE
                        ELSE x.e > y.e \/ (x.e = y.e /\ x.m >= y.m)
    IN  IF a.neg /\ a.m # 0
        THEN (b.neg /\ b.m # 0) /\ posGeq(b, a)
        ELSE (b.neg \/ b.m = 0) \/ posGeq(a, b)

\* Number(ethers.formatUnits(x, 8)): the Number nearest to x / 10^decimals.
NumberOfUnits(x) == RoundNumber(x, 10 ^ PriceDecimals, 0)

\* ------------------------------------------------------------------ off-chain configuration
\* An environment variable is unset (Null) or a string, held as its characters.
DigitValue == [c \in {"0", "1", "2", "3", "4", "5", "6", "7", "8", "9"} |->
                 CASE c = "0" -> 0 [] c = "1" -> 1 [] c = "2" -> 2 [] c = "3" -> 3
                   [] c = "4" -> 4 [] c = "5" -> 5 [] c = "6" -> 6 [] c = "7" -> 7
                   [] c = "8" -> 8 [] c = "9" -> 9]

\* The digits at the start of chars, as <<value, digits read>>.
RECURSIVE LeadingDigits(_, _, _)
LeadingDigits(chars, value, count) ==
    IF chars = <<>> \/ Head(chars) \notin DOMAIN DigitValue
    THEN <<value, count>>
    ELSE LeadingDigits(Tail(chars), 10 * value + DigitValue[Head(chars)], count + 1)

\* parseFloat(v) for an unset variable or an unsigned decimal string: the
\* Number of the longest numeric prefix, NaN (Null) when there is none.
ParseFloat(env) ==
    IF env = Null THEN Null
    ELSE LET chars == env[1]
             int == LeadingDigits(chars, 0, 0)
             rest == SubSeq(chars, int[2] + 1, Len(chars))
             frac == IF rest # <<>> /\ Head(rest) = "."
                     THEN LeadingDigits(Tail(rest), 0, 0) ELSE <<0, 0>>
         IN  IF int[2] + frac[2] = 0 THEN Null
             ELSE Some(RoundNumber(int[1] * (10 ^ frac[2]) + frac[1], 10 ^ frac[2], 0))

\* parseFloat(process.env.THRESHOLD_PERCENTAGE) || 5.0: NaN and 0 are falsy.
LoadThresholdPercentage(env) ==
    LET x == ParseFloat(env)
    IN  IF x = Null \/ x[1].m = 0 THEN RoundNumber(5, 1, 0) ELSE x[1]

\* A slot that holds no call of fetchAndUpdatePrice.
Idle == [pc |-> "idle"]

\* new PriceOracle(config), config loaded with THRESHOLD_PERCENTAGE = env.
NewPriceOracle(env) ==
    /\ thresholdEnv = env
    /\ thresholdPercentage = LoadThresholdPercentage(env)
    /\ isRunning = FALSE
    /\ intervalId = Null
    /\ lastPrice = Null
    /\ lastUpdateTime = Null
    /\ timers = {}
    /\ starts = 0
    /\ cycles = [i \in 1..MaxCycles |-> Idle]

Init ==
    /\ Deployed(OwnerAddr, AppP1, OracleA)
    /\ NewPriceOracle(Null)
    /\ blockTimestamp = GenesisTime
    /\ ticks = 0
    /\ result = NoResult

\* ------------------------------------------------------------------ updatePrice
\* a + b in checked uint256 arithmetic: beyond the range the call panics.
Overflows_Never(a, b) == FALSE
Overflows(a, b) == a + b > Uint256Max

\* !authorizedOracles[msg.sender]
OracleRejected_Never(sender) == FALSE
OracleRejected(sender) == sender \notin authorizedOracles

\* price == 0
PriceInvalid_Never(price) == FALSE
PriceInvalid(price) == price = 0

\* block.timestamp > timestamp + MAX_PRICE_AGE
PriceIsTooOld_AtLimit(timestamp) == blockTimestamp >= timestamp + MAX_PRICE_AGE
PriceIsTooOld(timestamp) == blockTimestamp > timestamp + MAX_PRICE_AGE

\* attestedPrice != price || attestedDataTimestamp != timestamp
AttestedDataDiffers_PriceOnly(d, price, timestamp) == d.price # price
AttestedDataDiffers(d, price, timestamp) == d.price # price \/ d.dataTimestamp # timestamp

\* block.timestamp > attestationTimestamp + 300
AttestationIsStale_AtLimit(attestationTimestamp) ==
    blockTimestamp >= attestationTimestamp + ATTESTATION_MAX_AGE
AttestationIsStale_PriceAge(attestationTimestamp) ==
    blockTimestamp > attestationTimestamp + MAX_PRICE_AGE
AttestationIsStale(attestationTimestamp) ==
    blockTimestamp > attestationTimestamp + ATTESTATION_MAX_AGE

\* !authorizedApps[appId]
AppRejected_AsDeployed(appId) == appId # AppP1
AppRejected(appId) == appId \notin authorizedApps

\* _verifyAttestation: the app id of the attestation, or the error it reverts with.
\* A revert of the external decoding call is caught; a revert inside the try
\* block is not.
_verifyAttestation_NoCatch(price, timestamp, attestation) ==
    LET d == _decodeAttestation(attestation)
    IN  IF ~d.ok THEN [status |-> "Panic"]
        ELSE IF AttestedDataDiffers(d, price, timestamp) THEN [status |-> "InvalidAttestation"]
        ELSE IF Overflows(d.attestationTimestamp, ATTESTATION_MAX_AGE) THEN [status |-> "Panic"]
        ELSE IF AttestationIsStale(d.attestationTimestamp) THEN [status |-> "InvalidAttestation"]
        ELSE [status |-> "Success", appId |-> d.appId]
_verifyAttestation_ChecksQuote(price, timestamp, attestation) ==
    LET d == _decodeAttestation(attestation)
    IN  IF ~d.ok THEN [status |-> "InvalidAttestation"]
        ELSE IF AttestedDataDiffers(d, price, timestamp) THEN [status |-> "InvalidAttestation"]
        ELSE IF Overflows(d.attestationTimestamp, ATTESTATION_MAX_AGE) THEN [status |-> "Panic"]
        ELSE IF AttestationIsStale(d.attestationTimestamp) THEN [status |-> "InvalidAttestation"]
        ELSE IF d.teeQuote.len = 0 THEN [status |-> "InvalidAttestation"]
        ELSE [status |-> "Success", appId |-> d.appId]
_verifyAttestation(price, timestamp, attestation) ==
    LET d == _decodeAttestation(attestation)
    IN  IF ~d.ok THEN [status |-> "InvalidAttestation"]
        ELSE IF AttestedDataDiffers(d, price, timestamp) THEN [status |-> "InvalidAttestation"]
        ELSE IF Overflows(d.attestationTimestamp, ATTESTATION_MAX_AGE) THEN [status |-> "Panic"]
        ELSE IF AttestationIsStale(d.attestationTimestamp) THEN [status |-> "InvalidAttestation"]
        ELSE [status |-> "Success", appId |-> d.appId]

\* The checks of updatePrice in the order the function makes them.
updatePriceOutcome_AgeFirst(sender, price, timestamp, attestation) ==
    IF Overflows(timestamp, MAX_PRICE_AGE) THEN [status |-> "Panic"]
    ELSE IF PriceIsTooOld(timestamp) THEN [status |-> "PriceTooOld"]
    ELSE IF OracleRejected(sender) THEN [status |-> "UnauthorizedOracle"]
    ELSE IF PriceInvalid(price) THEN [status |-> "InvalidPriceData"]
    ELSE LET v == _verifyAttestation(price, timestamp, attestation)
         IN  IF v.status # "Success" THEN v
             ELSE IF AppRejected(v.appId) THEN [status |-> "UnauthorizedApp"]
             ELSE v
updatePriceOutcome_OracleLast(sender, price, timestamp, attestation) ==
    IF PriceInvalid(price) THEN [status |-> "InvalidPriceData"]
    ELSE IF Overflows(timestamp, MAX_PRICE_AGE) THEN [status |-> "Panic"]
    ELSE IF PriceIsTooOld(timestamp) THEN [status |-> "PriceTooOld"]
    ELSE LET v == _verifyAttestation(price, timestamp, attestation)
         IN  IF v.status # "Success" THEN v
             ELSE IF AppRejected(v.appId) THEN [status |-> "UnauthorizedApp"]
             ELSE IF OracleRejected(sender) THEN [status |-> "UnauthorizedOracle"]
             ELSE v
updatePriceOutcome_Monotonic(sender, price, timestamp, attestation) ==
    IF OracleRejected(sender) THEN [status |-> "UnauthorizedOracle"]
    ELSE IF PriceInvalid(price) THEN [status |-> "InvalidPriceData"]
    ELSE IF Overflows(timestamp, MAX_PRICE_AGE) THEN [status |-> "Panic"]
    ELSE IF PriceIsTooOld(timestamp) \/ timestamp < latestPrice.timestamp
         THEN [status |-> "PriceTooOld"]
    ELSE LET v == _verifyAttestation(price, timestamp, attestation)
         IN  IF v.status # "Success" THEN v
             ELSE IF AppRejected(v.appId) THEN [status |-> "UnauthorizedApp"]
             ELSE v
updatePriceOutcome(sender, price, timestamp, attestation) ==
    IF OracleRejected(sender) THEN [status |-> "UnauthorizedOracle"]
    ELSE IF PriceInvalid(price) THEN [status |-> "InvalidPriceData"]
    ELSE IF Overflows(timestamp, MAX_PRICE_AGE) THEN [status |-> "Panic"]
    ELSE IF PriceIsTooOld(timestamp) THEN [status |-> "PriceTooOld"]
    ELSE LET v == _verifyAttestation(price, timestamp, attestation)
         IN  IF v.status # "Success" THEN v
             ELSE IF AppRejected(v.appId) THEN [status |-> "UnauthorizedApp"]
             ELSE v

\* _checkThresholds: the events it emits for price.
_checkThresholds_AtBound(price) ==
    IF ~thresholds.enabled THEN <<>>
    ELSE IF price >= thresholds.upperBound
         THEN <<ThresholdBreached(price, TRUE, thresholds.upperBound)>>
    ELSE IF price <= thresholds.lowerBound
         THEN <<ThresholdBreached(price, FALSE, thresholds.lowerBound)>>
    ELSE <<>>
_checkThresholds(price) ==
    IF ~thresholds.enabled THEN <<>>
    ELSE IF price > thresholds.upperBound
         THEN <<ThresholdBreached(price, TRUE, thresholds.upperBound)>>
    ELSE IF price < thresholds.lowerBound
         THEN <<ThresholdBreached(price, FALSE, thresholds.lowerBound)>>
    ELSE <<>>

\* latestPrice once the call has ended with out: written only after every check.
StoredPrice_BeforeAppCheck(out, sender, price, timestamp) ==
    IF out.status = "Success"
    THEN [price |-> price, timestamp |-> timestamp, oracle |-> sender,
          dataHash |-> Keccak256(AbiEncodePacked(price, timestamp, out.appId))]
    ELSE IF out.status = "UnauthorizedApp"
    THEN [price |-> price, timestamp |-> timestamp, oracle |-> sender, dataHash |-> ZeroHash]
    ELSE latestPrice
StoredPrice_KeepsOracle(out, sender, price, timestamp) ==
    IF out.status = "Success"
    THEN [price |-> price, timestamp |-> timestamp, oracle |-> latestPrice.oracle,
          dataHash |-> Keccak256(AbiEncodePacked(price, timestamp, out.appId))]
    ELSE latestPrice
StoredPrice(out, sender, price, timestamp) ==
    IF out.status = "Success"
    THEN [price |-> price, timestamp |-> timestamp, oracle |-> sender,
          dataHash |-> Keccak256(AbiEncodePacked(price, timestamp, out.appId))]
    ELSE latestPrice

\* The events of an accepted call, in the order the function emits them:
\* _checkThresholds(price), then PriceUpdated.
EmittedEvents_UpdatedFirst(price, timestamp, sender, appId) ==
    <<PriceUpdated(price, timestamp, sender, appId)>> \o _checkThresholds(price)
EmittedEvents(price, timestamp, sender, appId) ==
    _checkThresholds(price) \o <<PriceUpdated(price, timestamp, sender, appId)>>

\* One updatePrice transaction from sender, executed to its end.
updatePriceCall_EmitsOnChange(sender, price, timestamp, attestation) ==
    LET out == updatePriceOutcome(sender, price, timestamp, attestation)
    IN  /\ result' = [op |-> "updatePrice", sender |-> sender, price |-> price,
                      timestamp |-> timestamp, attestation |-> attestation,
                      at |-> blockTimestamp, status |-> out.status]
        /\ latestPrice' = StoredPrice(out, sender, price, timestamp)
        /\ events' = IF out.status = "Success" /\ price # latestPrice.price
                     THEN events \o EmittedEvents(price, timestamp, sender, out.appId)
                     ELSE events
        /\ UNCHANGED <<thresholds, authorizedApps, authorizedOracles, owner, blockTimestamp, ticks, offchain>>
updatePriceCall(sender, price, timestamp, attestation) ==
    LET out == updatePriceOutcome(sender, price, timestamp, attestation)
    IN  /\ result' = [op |-> "updatePrice", sender |-> sender, price |-> price,
                      timestamp |-> timestamp, attestation |-> attestation,
                      at |-> blockTimestamp, status |-> out.status]
        /\ latestPrice' = StoredPrice(out, sender, price, timestamp)
        /\ events' = IF out.status = "Success"
                     THEN events \o EmittedEvents(price, timestamp, sender, out.appId)
                     ELSE events
        /\ UNCHANGED <<thresholds, authorizedApps, authorizedOracles, owner, blockTimestamp, ticks, offchain>>

\* ------------------------------------------------------------------ registry
\* onlyOwner: the caller is not the owner.
CallerRejected_AllowsOracles(sender) == sender # owner /\ sender \notin authorizedOracles
CallerRejected(sender) == sender # owner

\* require(upperBound > lowerBound, ...) fails
BoundsRejected_Never(upperBound, lowerBound) == FALSE
BoundsRejected_OnlyInverted(upperBound, lowerBound) == upperBound < lowerBound
BoundsRejected(upperBound, lowerBound) == ~(upperBound > lowerBound)

\* setThresholds, onlyOwner.
setThresholdsCall_ResetsRecord(sender, upperBound, lowerBound, enabled) ==
    LET status == IF CallerRejected(sender) THEN "OwnableUnauthorizedAccount"
                  ELSE IF BoundsRejected(upperBound, lowerBound) THEN "Error"
                  ELSE "Success"
    IN  /\ result' = [op |-> "setThresholds", sender |-> sender, upperBound |-> upperBound,
                      lowerBound |-> lowerBound, enabled |-> enabled, status |-> status]
        /\ IF status = "Success"
           THEN /\ thresholds' = [upperBound |-> upperBound, lowerBound |-> lowerBound,
                                  enabled |-> enabled]
                /\ latestPrice' = [price |-> 0, timestamp |-> 0, oracle |-> ZeroAddr,
                                   dataHash |-> ZeroHash]
                /\ events' = Append(events, ThresholdConfigured(upperBound, lowerBound, enabled))
           ELSE UNCHANGED <<thresholds, latestPrice, events>>
        /\ UNCHANGED <<authorizedApps, authorizedOracles, owner, blockTimestamp, ticks, offchain, runtime>>
setThresholdsCall_ChecksWhenEnabled(sender, upperBound, lowerBound, enabled) ==
    LET status == IF CallerRejected(sender) THEN "OwnableUnauthorizedAccount"
                  ELSE IF enabled /\ BoundsRejected(upperBound, lowerBound) THEN "Error"
                  ELSE "Success"
    IN  /\ result' = [op |-> "setThresholds", sender |-> sender, upperBound |-> upperBound,
                      lowerBound |-> lowerBound, enabled |-> enabled, status |-> status]
        /\ IF status = "Success"
           THEN /\ thresholds' = [upperBound |-> upperBound, lowerBound |-> lowerBound,
                                  enabled |-> enabled]
                /\ events' = Append(events, ThresholdConfigured(upperBound, lowerBound, enabled))
           ELSE UNCHANGED <<thresholds, events>>
        /\ UNCHANGED <<latestPrice, authorizedApps, authorizedOracles, owner, blockTimestamp, ticks, offchain, runtime>>
setThresholdsCall(sender, upperBound, lowerBound, enabled) ==
    LET status == IF CallerRejected(sender) THEN "OwnableUnauthorizedAccount"
                  ELSE IF BoundsRejected(upperBound, lowerBound) THEN "Error"
                  ELSE "Success"
    IN  /\ result' = [op |-> "setThresholds", sender |-> sender, upperBound |-> upperBound,
                      lowerBound |-> lowerBound, enabled |-> enabled, status |-> status]
        /\ IF status = "Success"
           THEN /\ thresholds' = [upperBound |-> upperBound, lowerBound |-> lowerBound,
                                  enabled |-> enabled]
                /\ events' = Append(events, ThresholdConfigured(upperBound, lowerBound, enabled))
           ELSE UNCHANGED <<thresholds, events>>
        /\ UNCHANGED <<latestPrice, authorizedApps, authorizedOracles, owner, blockTimestamp, ticks, offchain, runtime>>

\* mapping[key] = authorized, on a mapping held as the set of keys mapped to true.
SetMember_AddOnly(set, key, authorized) == set \cup {key}
SetMember(set, key, authorized) == IF authorized THEN set \cup {key} ELSE set \ {key}

\* setAppAuthorization, onlyOwner.
setAppAuthorizationCall(sender, appId, authorized) ==
    LET status == IF CallerRejected(sender) THEN "OwnableUnauthorizedAccount" ELSE "Success"
    IN  /\ result' = [op |-> "setAppAuthorization", sender |-> sender, appId |-> appId,
                      authorized |-> authorized, status |-> status]
        /\ IF status = "Success"
           THEN /\ authorizedApps' = SetMember(authorizedApps, appId, authorized)
                /\ events' = Append(events, AppAuthorized(appId, authorized))
           ELSE UNCHANGED <<authorizedApps, events>>
        /\ UNCHANGED <<latestPrice, thresholds, authorizedOracles, owner, blockTimestamp, ticks, offchain, runtime>>

\* setOracleAuthorization, onlyOwner.
setOracleAuthorizationCall(sender, oracle, authorized) ==
    LET status == IF CallerRejected(sender) THEN "OwnableUnauthorizedAccount" ELSE "Success"
    IN  /\ result' = [op |-> "setOracleAuthorization", sender |-> sender, oracle |-> oracle,
                      authorized |-> authorized, status |-> status]
        /\ IF status = "Success"
           THEN /\ authorizedOracles' = SetMember(authorizedOracles, oracle, authorized)
                /\ events' = Append(events, OracleAuthorized(oracle, authorized))
           ELSE UNCHANGED <<authorizedOracles, events>>
        /\ UNCHANGED <<latestPrice, thresholds, authorizedApps, owner, blockTimestamp, ticks, offchain, runtime>>

\* ------------------------------------------------------------------ views
\* getLatestPrice(): (latestPrice.price, latestPrice.timestamp)
getLatestPrice_Swapped == <<latestPrice.timestamp, latestPrice.price>>
getLatestPrice == <<latestPrice.price, latestPrice.timestamp>>

\* getLatestPriceData(): the whole record.
getLatestPriceData == latestPrice

\* isPriceWithinThresholds(price)
isPriceWithinThresholds_Exclusive(price) ==
    IF ~thresholds.enabled THEN TRUE
    ELSE price > thresholds.lowerBound /\ price < thresholds.upperBound
isPriceWithinThresholds_UpperOnly(price) ==
    IF ~thresholds.enabled THEN TRUE
    ELSE price <= thresholds.upperBound
isPriceWithinThresholds(price) ==
    IF ~thresholds.enabled THEN TRUE
    ELSE price >= thresholds.lowerBound /\ price <= thresholds.upperBound

\* getThresholds()
getThresholds == thresholds

\* One eth_call of a view function: what it returns.
viewCall(op, arg, returned) ==
    /\ result' = [op |-> op, arg |-> arg, returned |-> returned, status |-> "Success"]
    /\ UNCHANGED <<contractState, blockTimestamp, ticks, offchain, runtime>>

\* ------------------------------------------------------------------ inputs
Prices == {0, 1, 3}

\* Byte strings that are no attestation: nothing at all, two stray bytes, an
\* envelope cut inside its head, an envelope whose first offset points past
\* its end, one whose app id claims more bytes than there are, one whose price
\* data lacks its third word, and one whose source offset points past the
\* price data.
CutToWords(b, n) == [len |-> WORD * n, words |-> SubSeq(b.words, 1, n)]

MalformedAttestations ==
    LET e == Envelope(AppP1, GenesisTime, 1, GenesisTime, Opaque1)
    IN  { EmptyBytes,
          [len |-> 2, words |-> <<31>>],
          CutToWords(e, 4),
          [len |-> e.len, words |-> [e.words EXCEPT ![1] = e.len]],
          [len |-> e.len, words |-> [e.words EXCEPT ![6] = e.len]],
          AbiEncodeAttestation(AppP1, GenesisTime,
                               [len |-> 4 * WORD, words |-> <<1, GenesisTime, 4 * WORD, 0>>],
                               Opaque1.teeQuote, Opaque1.signature),
          AbiEncodeAttestation(AppP1, GenesisTime, [len |-> 2 * WORD, words |-> <<1, GenesisTime>>],
                               Opaque1.teeQuote, Opaque1.signature) }

\* Observation and attestation times around the age limits at block time t,
\* and at the top of the uint256 range.
ObservationTimes(t) == {t - MAX_PRICE_AGE - 1, t - MAX_PRICE_AGE, t - MAX_PRICE_AGE + 1,
                        Uint256Max - MAX_PRICE_AGE, Uint256Max - MAX_PRICE_AGE + 1}

AttestationTimes(t) == {t - ATTESTATION_MAX_AGE - 1, t - ATTESTATION_MAX_AGE,
                        Uint256Max - ATTESTATION_MAX_AGE, Uint256Max - ATTESTATION_MAX_AGE + 1}

\* Every envelope over the field values above, as <<envelope, fields>>.
EnvelopeTable(t) ==
    { <<Envelope(f.appId, f.attestationTimestamp, f.price, f.timestamp, f.opq), f>> :
        f \in [appId : AppIds, attestationTimestamp : AttestationTimes(t),
               price : Prices \ {0}, timestamp : ObservationTimes(t), opq : Opaques] }

VerifyEnvelopes == EnvelopeTable(GenesisTime)

VerifyAttestations == {p[1] : p \in VerifyEnvelopes} \cup MalformedAttestations

\* The few attestations a sender of the running system tries for (price, timestamp)
\* at block time t: the matching envelope of either app, a stale one, one
\* carrying another price, and none.
SentAttestations(t, price, timestamp) ==
    { Envelope(AppP1, t, price, timestamp, Opaque1),
      Envelope(AppP2, t, price, timestamp, Opaque2),
      Envelope(AppP1, t - ATTESTATION_MAX_AGE - 1, price, timestamp, Opaque1),
      Envelope(AppP1, t, 1 + price, timestamp, Opaque1),
      EmptyBytes }

SentTimes(t) == {t - MAX_PRICE_AGE - 1, t - MAX_PRICE_AGE, t}

\* (upperBound, lowerBound) pairs the owner or anyone else tries.
BoundPairs == {<<0, 0>>, <<2, 1>>, <<3, 2>>, <<2, 2>>, <<1, 2>>}

\* Prices a reader asks isPriceWithinThresholds about: below, at, between and
\* above the bounds the owner sets.
QueryPrices == {0, 1, 2, 3, 4}

\* ------------------------------------------------------------------ actions
\* No transaction is sent once the log is long enough.
CanSend == result = NoResult /\ Len(events) + 2 <= MaxEvents

updatePrice ==
    /\ CanSend
    /\ \E sender \in {OracleA, OracleB}, price \in Prices, timestamp \in SentTimes(blockTimestamp) :
         \E attestation \in SentAttestations(blockTimestamp, price, timestamp) :
            updatePriceCall(sender, price, timestamp, attestation)
    /\ UNCHANGED runtime

setThresholds ==
    /\ CanSend
    /\ \E sender \in {OwnerAddr, OracleA}, b \in BoundPairs, enabled \in BOOLEAN :
         setThresholdsCall(sender, b[1], b[2], enabled)

setAppAuthorization ==
    /\ CanSend
    /\ \E sender \in {OwnerAddr, OracleA}, appId \in AppIds, authorized \in BOOLEAN :
         setAppAuthorizationCall(sender, appId, authorized)

setOracleAuthorization ==
    /\ CanSend
    /\ \E sender \in {OwnerAddr, OracleA}, oracle \in {OracleA, OracleB}, authorized \in BOOLEAN :
         setOracleAuthorizationCall(sender, oracle, authorized)

\* A reader calls one of the view functions.
readLatestPrice ==
    /\ result = NoResult
    /\ viewCall("getLatestPrice", <<>>, getLatestPrice)

readLatestPriceData ==
    /\ result = NoResult
    /\ viewCall("getLatestPriceData", <<>>, getLatestPriceData)

readIsPriceWithinThresholds ==
    /\ result = NoResult
    /\ \E price \in QueryPrices :
          viewCall("isPriceWithinThresholds", price, isPriceWithinThresholds(price))

readThresholds ==
    /\ result = NoResult
    /\ viewCall("getThresholds", <<>>, getThresholds)

\* The sender has read how its transaction ended (tx.wait() returned or threw).
AwaitReceipt ==
    /\ result # NoResult
    /\ result' = NoResult
    /\ UNCHANGED <<contractState, blockTimestamp, ticks, offchain, runtime>>

\* A later block: an attestation made at the last block time is stale by now,
\* and so is an observation that was at the age limit.
Tick ==
    /\ result = NoResult
    /\ ticks < MaxTicks
    /\ blockTimestamp' = blockTimestamp + ATTESTATION_MAX_AGE + 1
    /\ ticks' = ticks + 1
    /\ UNCHANGED <<contractState, result, offchain, runtime>>

Next ==
    \/ updatePrice
    \/ setThresholds
    \/ setAppAuthorization
    \/ setOracleAuthorization
    \/ readLatestPrice
    \/ readLatestPriceData
    \/ readIsPriceWithinThresholds
    \/ readThresholds
    \/ AwaitReceipt
    \/ Tick

Spec == Init /\ [][Next]_vars

\* ------------------------------------------------------------------ any deployment
\* The contract deployed by either of two accounts for either app id and with
\* the deployer itself or another account as the initial oracle; the deployment
\* transaction is the one just executed.
Deployers == {OwnerAddr, OracleA}

InitDeploy ==
    /\ NewPriceOracle(Null)
    /\ \E deployer \in Deployers, initialAppId \in AppIds, initialOracle \in Deployers :
          /\ Deployed(deployer, initialAppId, initialOracle)
          /\ result = [op |-> "constructor", sender |-> deployer, initialAppId |-> initialAppId,
                       initialOracle |-> initialOracle, status |-> "Success"]
    /\ blockTimestamp = GenesisTime
    /\ ticks = 0

SpecDeploy == InitDeploy /\ [][Next]_vars

\* ------------------------------------------------------------------ one call, any input
\* The contract after the owner has set every authorization and, possibly, the
\* thresholds; then one updatePrice call with any of the inputs above.
ThresholdChoices ==
    { [upperBound |-> 0, lowerBound |-> 0, enabled |-> FALSE],
      [upperBound |-> 2, lowerBound |-> 1, enabled |-> TRUE],
      [upperBound |-> 3, lowerBound |-> 2, enabled |-> TRUE],
      [upperBound |-> 2, lowerBound |-> 1, enabled |-> FALSE] }

\* The record and the event of an update OracleA made for AppP1 right after
\* deployment, or none.
EarlierUpdates ==
    { <<[price |-> 0, timestamp |-> 0, oracle |-> ZeroAddr, dataHash |-> ZeroHash], <<>>>>,
      <<[price |-> 1, timestamp |-> GenesisTime, oracle |-> OracleA,
         dataHash |-> Keccak256(AbiEncodePacked(1, GenesisTime, AppP1))],
        <<PriceUpdated(1, GenesisTime, OracleA, AppP1)>>>> }

InitVerify ==
    /\ NewPriceOracle(Null)
    /\ owner = OwnerAddr
    /\ authorizedApps \in SUBSET AppIds
    /\ authorizedOracles \in {{}, {OracleA}, {OracleA, OracleB}}
    /\ thresholds \in ThresholdChoices
    /\ \E u \in EarlierUpdates :
        /\ latestPrice = u[1]
        /\ events = <<AppAuthorized(AppP1, TRUE), OracleAuthorized(OracleA, TRUE)>> \o u[2] \o
                <<AppAuthorized(AppP1, AppP1 \in authorizedApps),
                  AppAuthorized(AppP2, AppP2 \in authorizedApps),
                  OracleAuthorized(OracleA, OracleA \in authorizedOracles),
                  OracleAuthorized(OracleB, OracleB \in authorizedOracles)>>
                \o (IF thresholds.upperBound = 0 THEN <<>>
                    ELSE <<ThresholdConfigured(thresholds.upperBound, thresholds.lowerBound,
                                               thresholds.enabled)>>)
    /\ blockTimestamp = GenesisTime
    /\ ticks = 0
    /\ result = NoResult

updatePriceAny ==
    /\ result = NoResult
    /\ \E sender \in {OracleA, OracleB}, price \in Prices,
          timestamp \in ObservationTimes(GenesisTime), attestation \in VerifyAttestations :
            updatePriceCall(sender, price, timestamp, attestation)
    /\ UNCHANGED runtime

NextVerify == updatePriceAny

SpecVerify == InitVerify /\ [][NextVerify]_vars

\* ------------------------------------------------------------------ a call repeated
\* A sender whose updatePrice call was rejected sends the identical call
\* again, in the same block or in a later one, while nobody changes the
\* registry.
updatePriceAgain ==
    /\ result.op = "updatePrice"
    /\ result.status # "Success"
    /\ updatePriceCall(result.sender, result.price, result.timestamp, result.attestation)
    /\ UNCHANGED runtime

LaterBlock ==
    /\ result.op = "updatePrice"
    /\ ticks < MaxTicks
    /\ blockTimestamp' = blockTimestamp + ATTESTATION_MAX_AGE + 1
    /\ ticks' = ticks + 1
    /\ UNCHANGED <<contractState, result, offchain, runtime>>

NextRepeat ==
    \/ updatePriceAny
    \/ updatePriceAgain
    \/ LaterBlock

SpecRepeat == InitVerify /\ [][NextRepeat]_vars

\* ------------------------------------------------------------------ update after update
\* Senders whose envelopes carry the price and the observation time of their
\* call send one update and, once it is accepted, another one.
updatePriceMatching ==
    /\ result = NoResult \/ (result.op = "updatePrice" /\ result.status = "Success")
    /\ Len(SelectSeq(events, LAMBDA e : e.name = "PriceUpdated")) < MaxUpdates
    /\ \E sender \in {OracleA, OracleB}, p \in VerifyEnvelopes :
          updatePriceCall(sender, p[2].price, p[2].timestamp, p[1])
    /\ UNCHANGED runtime

NextPair == updatePriceMatching

SpecPair == InitVerify /\ [][NextPair]_vars

\* ------------------------------------------------------------------ reading a step
\* This step is one updatePrice transaction, executed.
UpdateDone == result = NoResult /\ result'.op = "updatePrice"

\* The events this step appends to the log.
NewEvents == SubSeq(events', Len(events) + 1, Len(events'))

\* The log only grew.
LogExtended == Len(events') >= Len(events) /\ SubSeq(events', 1, Len(events)) = events

EventsNamed(log, name) == SelectSeq(log, LAMBDA e : e.name = name)

\* The fields an envelope was built from, for the envelopes of VerifyEnvelopes.
VerifyFields == [att \in {p[1] : p \in VerifyEnvelopes} |->
                    (CHOOSE p \in VerifyEnvelopes : p[1] = att)[2]]
IsVerifyEnvelope(att) == att \in DOMAIN VerifyFields
FieldsOf(att) == VerifyFields[att]

\* An accepted update of call r for app id appId: the record is overwritten with
\* the four fields and the log gains exactly one PriceUpdated, as its last entry.
AcceptedAs(r, appId) ==
    /\ r.status = "Success"
    /\ latestPrice' = [price |-> r.price, timestamp |-> r.timestamp, oracle |-> r.sender,
                       dataHash |-> Keccak256(AbiEncodePacked(r.price, r.timestamp, appId))]
    /\ LogExtended
    /\ EventsNamed(NewEvents, "PriceUpdated")
         = <<PriceUpdated(r.price, r.timestamp, r.sender, appId)>>
    /\ UNCHANGED <<thresholds, authorizedApps, authorizedOracles, owner>>

\* The inputs the spec calls valid, for a call r made at block time t.
ValidInputs(r, t) ==
    /\ r.price > 0
    /\ t <= r.timestamp + MAX_PRICE_AGE
    /\ IsVerifyEnvelope(r.attestation)
    /\ FieldsOf(r.attestation).price = r.price
    /\ FieldsOf(r.attestation).timestamp = r.timestamp
    /\ t <= FieldsOf(r.attestation).attestationTimestamp + ATTESTATION_MAX_AGE
    /\ FieldsOf(r.attestation).appId \in authorizedApps
    /\ r.sender \in authorizedOracles

\* Neither sum of the two time checks leaves the uint256 range.
SumsInRange(r) ==
    /\ r.timestamp + MAX_PRICE_AGE <= Uint256Max
    /\ FieldsOf(r.attestation).attestationTimestamp + ATTESTATION_MAX_AGE <= Uint256Max

\* ------------------------------------------------------------------ C1
\* C1 as stated: every updatePrice call with price > 0, observedAt within
\* MAX_AGE of now, a well-formed fresh envelope carrying the call's price and
\* observedAt, an authorized producer and an authorized submitter is accepted,
\* LatestRecord becomes (price, observedAt, submitter, hash(price, observedAt,
\* producerId)) and exactly one Updated event is emitted.
C1_ValidUpdateAccepted ==
    [][ (UpdateDone /\ ValidInputs(result', blockTimestamp))
            => AcceptedAs(result', FieldsOf(result'.attestation).appId) ]_vars

\* C1 as amended: the same, for the calls whose observedAt + MAX_AGE and
\* attestedAt + 300 do not exceed the uint256 range.
C1_ValidUpdateAcceptedInRange ==
    [][ (UpdateDone /\ ValidInputs(result', blockTimestamp) /\ SumsInRange(result'))
            => AcceptedAs(result', FieldsOf(result'.attestation).appId) ]_vars

\* A valid call at the age limit and at the freshness limit was accepted over an
\* earlier record.
C1_Witness ==
    /\ result.op = "updatePrice"
    /\ result.status = "Success"
    /\ ValidInputs(result, blockTimestamp)
    /\ SumsInRange(result)
    /\ result.timestamp = blockTimestamp - MAX_PRICE_AGE
    /\ FieldsOf(result.attestation).attestationTimestamp = blockTimestamp - ATTESTATION_MAX_AGE
    /\ latestPrice.price = result.price
    /\ Len(EventsNamed(events, "PriceUpdated")) = 2

\* ------------------------------------------------------------------ C2
\* C2: every updatePrice call ends accepted or rejected with a reason, and a
\* rejected call leaves the record, the thresholds, both authorization sets,
\* the owner and the event log as they were.
Reasons == {"UnauthorizedOracle", "InvalidPriceData", "PriceTooOld", "InvalidAttestation",
            "UnauthorizedApp", "Panic"}

C2_RejectionChangesNothing ==
    [][ UpdateDone =>
          /\ result'.status \in {"Success"} \cup Reasons
          /\ (result'.status # "Success" => UNCHANGED contractState)
          /\ (result'.status = "Success" => events' # events) ]_vars

\* A call was rejected at the last check while an earlier record and its event
\* were in place.
C2_Witness ==
    /\ result.op = "updatePrice"
    /\ result.status = "UnauthorizedApp"
    /\ latestPrice.price = 1
    /\ Len(EventsNamed(events, "PriceUpdated")) = 1

\* ------------------------------------------------------------------ C3
\* The call r passes the submitter, price and age checks at block time t.
ReachesVerification(r, t) ==
    /\ r.sender \in authorizedOracles
    /\ r.price # 0
    /\ r.timestamp + MAX_PRICE_AGE <= Uint256Max
    /\ t <= r.timestamp + MAX_PRICE_AGE

\* The reason of the first failing check, in the order of the claim; Success
\* when none fails.
FirstFailure(r, t) ==
    IF r.sender \notin authorizedOracles THEN "UnauthorizedOracle"
    ELSE IF r.price = 0 THEN "InvalidPriceData"
    ELSE IF t > r.timestamp + MAX_PRICE_AGE THEN "PriceTooOld"
    ELSE IF r.attestation \in MalformedAttestations THEN "InvalidAttestation"
    ELSE IF FieldsOf(r.attestation).price # r.price
              \/ FieldsOf(r.attestation).timestamp # r.timestamp THEN "InvalidAttestation"
    ELSE IF t > FieldsOf(r.attestation).attestationTimestamp + ATTESTATION_MAX_AGE
         THEN "InvalidAttestation"
    ELSE IF FieldsOf(r.attestation).appId \notin authorizedApps THEN "UnauthorizedApp"
    ELSE "Success"

\* The same order, with the arithmetic panic of a time sum that leaves the
\* uint256 range at the place of the check that computes the sum.
FirstFailureOrPanic(r, t) ==
    IF r.sender \notin authorizedOracles THEN "UnauthorizedOracle"
    ELSE IF r.price = 0 THEN "InvalidPriceData"
    ELSE IF r.timestamp + MAX_PRICE_AGE > Uint256Max THEN "Panic"
    ELSE IF t > r.timestamp + MAX_PRICE_AGE THEN "PriceTooOld"
    ELSE IF r.attestation \in MalformedAttestations THEN "InvalidAttestation"
    ELSE IF FieldsOf(r.attestation).price # r.price
              \/ FieldsOf(r.attestation).timestamp # r.timestamp THEN "InvalidAttestation"
    ELSE IF FieldsOf(r.attestation).attestationTimestamp + ATTESTATION_MAX_AGE > Uint256Max
         THEN "Panic"
    ELSE IF t > FieldsOf(r.attestation).attestationTimestamp + ATTESTATION_MAX_AGE
         THEN "InvalidAttestation"
    ELSE IF FieldsOf(r.attestation).appId \notin authorizedApps THEN "UnauthorizedApp"
    ELSE "Success"

\* C3 as stated: a call of which some check fails is rejected with the reason
\* of the first failing check in the order submitter, price, age, decoding,
\* payload equality, freshness, producer.
C3_FirstFailingCheckDecides ==
    [][ (UpdateDone /\ FirstFailure(result', blockTimestamp) # "Success")
            => result'.status = FirstFailure(result', blockTimestamp) ]_vars

\* C3 as amended: the same order, where the age check ends in an arithmetic
\* panic when observedAt + MAX_AGE exceeds the uint256 range and the freshness
\* check does when attestedAt + 300 exceeds it.
C3_FirstFailingCheckOrPanicDecides ==
    [][ UpdateDone => result'.status = FirstFailureOrPanic(result', blockTimestamp) ]_vars

\* A call failing the price check, the age check and the decoding at once was
\* rejected for its price.
C3_Witness ==
    /\ result.op = "updatePrice"
    /\ result.sender \in authorizedOracles
    /\ result.price = 0
    /\ blockTimestamp > result.timestamp + MAX_PRICE_AGE
    /\ result.attestation = EmptyBytes
    /\ result.status = "InvalidPriceData"

\* ------------------------------------------------------------------ C4
\* The app ids of the envelopes a sender of the running system may have sent
\* as r.attestation at block time t.
SentAppIds(r, t) ==
    { a \in AppIds :
        \E at \in {t, t - ATTESTATION_MAX_AGE - 1}, pp \in {r.price, 1 + r.price}, opq \in Opaques :
            r.attestation = Envelope(a, at, pp, r.timestamp, opq) }

\* C4: an update is accepted only from a caller that is an authorized oracle at
\* the time of the call and for an envelope whose app id is authorized then;
\* the stored oracle and the app id of the PriceUpdated event are these; a call
\* from an unauthorized caller fails UnauthorizedOracle and changes nothing.
C4_OnlyAuthorizedUpdate ==
    [][ UpdateDone =>
          /\ result'.status = "Success" =>
                /\ result'.sender \in authorizedOracles
                /\ latestPrice'.oracle = result'.sender
                /\ \E a \in SentAppIds(result', blockTimestamp) :
                      /\ a \in authorizedApps
                      /\ events'[Len(events')]
                           = PriceUpdated(result'.price, result'.timestamp, result'.sender, a)
          /\ result'.sender \notin authorizedOracles =>
                /\ result'.status = "UnauthorizedOracle"
                /\ UNCHANGED contractState ]_vars

\* An otherwise valid call of OracleB, which is not authorized, was rejected.
C4_Witness ==
    /\ result.op = "updatePrice"
    /\ result.sender = OracleB
    /\ OracleB \notin authorizedOracles
    /\ result.price = 1
    /\ result.timestamp = blockTimestamp
    /\ result.attestation = Envelope(AppP1, blockTimestamp, 1, blockTimestamp, Opaque1)
    /\ AppP1 \in authorizedApps
    /\ result.status = "UnauthorizedOracle"

\* ------------------------------------------------------------------ C5
\* C5: a call whose envelope is well formed but carries another price or
\* another observedAt than the call is never accepted and changes nothing; it
\* fails InvalidAttestation once it has passed the submitter, price and age
\* checks.
PayloadDiffers(r) ==
    /\ IsVerifyEnvelope(r.attestation)
    /\ \/ FieldsOf(r.attestation).price # r.price
       \/ FieldsOf(r.attestation).timestamp # r.timestamp

C5_MismatchRejected ==
    [][ (UpdateDone /\ PayloadDiffers(result')) =>
          /\ result'.status # "Success"
          /\ UNCHANGED contractState
          /\ ReachesVerification(result', blockTimestamp)
                => result'.status = "InvalidAttestation" ]_vars

\* An authorized oracle sent a fresh envelope of an authorized app with the
\* call's price but another observedAt, and was rejected.
C5_Witness ==
    /\ result.op = "updatePrice"
    /\ ReachesVerification(result, blockTimestamp)
    /\ PayloadDiffers(result)
    /\ FieldsOf(result.attestation).price = result.price
    /\ FieldsOf(result.attestation).timestamp > result.timestamp
    /\ FieldsOf(result.attestation).attestationTimestamp = blockTimestamp - ATTESTATION_MAX_AGE
    /\ FieldsOf(result.attestation).appId \in authorizedApps
    /\ result.status = "InvalidAttestation"

\* ------------------------------------------------------------------ C6
\* The call r is valid in everything but, possibly, its observedAt: an
\* authorized oracle, a price, and an authorized app's envelope carrying the
\* call's values, attested 300 s before block time t.
ValidButForAge(r, t) ==
    /\ r.sender \in authorizedOracles
    /\ r.price # 0
    /\ IsVerifyEnvelope(r.attestation)
    /\ FieldsOf(r.attestation).price = r.price
    /\ FieldsOf(r.attestation).timestamp = r.timestamp
    /\ FieldsOf(r.attestation).attestationTimestamp = t - ATTESTATION_MAX_AGE
    /\ FieldsOf(r.attestation).appId \in authorizedApps

\* C6 as stated: with MAX_AGE = 3600 the age check rejects with PriceTooOld
\* exactly when now > observedAt + MAX_AGE, and passes exactly when
\* now <= observedAt + MAX_AGE: a call valid in everything else is then accepted.
C6_AgeCheck ==
    [][ (UpdateDone /\ result'.sender \in authorizedOracles /\ result'.price # 0) =>
          /\ result'.status = "PriceTooOld" <=> blockTimestamp > result'.timestamp + 3600
          /\ ValidButForAge(result', blockTimestamp) =>
               (result'.status = "Success" <=> blockTimestamp <= result'.timestamp + 3600) ]_vars

\* C6 as amended: the age check passes exactly when observedAt + MAX_AGE is
\* within the uint256 range and now <= observedAt + MAX_AGE; a sum beyond the
\* range ends the call in an arithmetic panic, not in PriceTooOld.
C6_AgeCheckInRange ==
    [][ (UpdateDone /\ result'.sender \in authorizedOracles /\ result'.price # 0) =>
          /\ result'.status = "PriceTooOld" <=> blockTimestamp > result'.timestamp + 3600
          /\ result'.timestamp + 3600 > Uint256Max => result'.status = "Panic"
          /\ ValidButForAge(result', blockTimestamp) =>
               (result'.status = "Success" <=>
                    /\ result'.timestamp + 3600 <= Uint256Max
                    /\ blockTimestamp <= result'.timestamp + 3600) ]_vars

\* An observation exactly 3600 s old passed the check and was accepted.
C6_Witness ==
    /\ result.op = "updatePrice"
    /\ ValidButForAge(result, blockTimestamp)
    /\ result.timestamp = blockTimestamp - 3600
    /\ result.status = "Success"
    /\ latestPrice.timestamp = blockTimestamp - 3600

\* ------------------------------------------------------------------ C7
\* The call r passes every check before the freshness check at block time t.
ReachesFreshness(r, t) ==
    /\ ReachesVerification(r, t)
    /\ IsVerifyEnvelope(r.attestation)
    /\ FieldsOf(r.attestation).price = r.price
    /\ FieldsOf(r.attestation).timestamp = r.timestamp

\* C7: a call that passes all earlier checks is rejected with
\* InvalidAttestation exactly when now > attestedAt + 300, whatever its
\* observedAt within MAX_AGE.
C7_FreshnessCheck ==
    [][ (UpdateDone /\ ReachesFreshness(result', blockTimestamp)) =>
          (result'.status = "InvalidAttestation"
             <=> blockTimestamp > FieldsOf(result'.attestation).attestationTimestamp + 300) ]_vars

\* An envelope attested 301 s ago for an observation one second inside MAX_AGE
\* was rejected.
C7_Witness ==
    /\ result.op = "updatePrice"
    /\ ReachesFreshness(result, blockTimestamp)
    /\ result.timestamp = blockTimestamp - MAX_PRICE_AGE + 1
    /\ FieldsOf(result.attestation).attestationTimestamp = blockTimestamp - 301
    /\ FieldsOf(result.attestation).appId \in authorizedApps
    /\ result.status = "InvalidAttestation"

\* ------------------------------------------------------------------ C8
\* C8: a call whose attestation is empty or does not decode as the envelope is
\* never accepted and changes nothing; once it has passed the submitter, price
\* and age checks it fails InvalidAttestation and nothing else.
C8_UndecodableRejected ==
    [][ (UpdateDone /\ result'.attestation \in MalformedAttestations) =>
          /\ result'.status # "Success"
          /\ UNCHANGED contractState
          /\ ReachesVerification(result', blockTimestamp)
                => result'.status = "InvalidAttestation" ]_vars

\* An authorized oracle sent a price with an attestation whose price data is
\* cut short, and was rejected.
C8_Witness ==
    /\ result.op = "updatePrice"
    /\ ReachesVerification(result, blockTimestamp)
    /\ result.attestation \in MalformedAttestations
    /\ result.attestation.len > 5 * WORD
    /\ result.status = "InvalidAttestation"

\* ------------------------------------------------------------------ C9
\* C9: a call with price 0 from an authorized oracle fails InvalidPriceData,
\* and the stored price is 0 exactly as long as no update has been accepted.
NoUpdateIn(log) == EventsNamed(log, "PriceUpdated") = <<>>

C9_ZeroPriceNeverStored ==
    [][ /\ (UpdateDone /\ result'.price = 0 /\ result'.sender \in authorizedOracles)
              => result'.status = "InvalidPriceData"
        /\ latestPrice.price = 0 <=> NoUpdateIn(events)
        /\ latestPrice'.price = 0 <=> NoUpdateIn(events') ]_vars

\* An authorized oracle sent price 0 in a matching envelope after an update
\* had been accepted.
C9_Witness ==
    /\ result.op = "updatePrice"
    /\ result.price = 0
    /\ result.sender \in authorizedOracles
    /\ result.attestation = Envelope(AppP1, blockTimestamp, 0, result.timestamp, Opaque1)
    /\ result.status = "InvalidPriceData"
    /\ latestPrice.price # 0

\* ------------------------------------------------------------------ C10
\* The breach events the claim expects for price under the thresholds th.
ExpectedBreaches(price, th) ==
    (IF th.enabled /\ price > th.upperBound
     THEN <<ThresholdBreached(price, TRUE, th.upperBound)>> ELSE <<>>)
    \o (IF th.enabled /\ price < th.lowerBound
        THEN <<ThresholdBreached(price, FALSE, th.lowerBound)>> ELSE <<>>)

\* C10: an accepted update emits one upper breach iff thresholds are enabled
\* and price > upperBound, one lower breach iff enabled and price < lowerBound,
\* none otherwise, and never two.
C10_BreachEvents ==
    [][ (UpdateDone /\ result'.status = "Success") =>
          /\ EventsNamed(NewEvents, "ThresholdBreached") = ExpectedBreaches(result'.price, thresholds)
          /\ Len(EventsNamed(NewEvents, "ThresholdBreached")) <= 1 ]_vars

\* A price equal to the enabled upper bound was accepted without a breach event.
C10_Witness ==
    /\ result.op = "updatePrice"
    /\ result.status = "Success"
    /\ thresholds.enabled
    /\ result.price = thresholds.upperBound
    /\ events[Len(events)].name = "PriceUpdated"
    /\ events[Len(events) - 1].name # "ThresholdBreached"

\* ------------------------------------------------------------------ C11
\* This step is one call of the view function op.
ViewDone(op) == result = NoResult /\ result'.op = op

\* C11: isPriceWithinThresholds(p) returns true iff the thresholds are disabled
\* or lowerBound <= p <= upperBound, both bounds inclusive, for every p and
\* every reachable configuration, and changes no state.
C11_WithinThresholds ==
    [][ ViewDone("isPriceWithinThresholds") =>
          /\ result'.returned <=>
                \/ ~thresholds.enabled
                \/ (thresholds.lowerBound <= result'.arg /\ result'.arg <= thresholds.upperBound)
          /\ UNCHANGED <<contractState, blockTimestamp>> ]_vars

\* Under enabled thresholds a price equal to the upper bound was reported
\* within them.
C11_Witness ==
    /\ result.op = "isPriceWithinThresholds"
    /\ thresholds.enabled
    /\ result.arg = thresholds.upperBound
    /\ result.returned = TRUE

\* ------------------------------------------------------------------ C12
\* This step is one transaction of the registry function op, executed.
CallDone(op) == result = NoResult /\ result'.op = op

\* C12: setThresholds(upper, lower, enabled) called by the owner fails if
\* enabled and upper <= lower, with the reason of the range check and leaving
\* the configuration unchanged; when it succeeds the configuration becomes
\* exactly (upper, lower, enabled) and exactly one
\* ThresholdConfigured(upper, lower, enabled) event is emitted.
C12_SetThresholds ==
    [][ (CallDone("setThresholds") /\ result'.sender = owner) =>
          /\ (result'.enabled /\ result'.upperBound <= result'.lowerBound) =>
                /\ result'.status = "Error"
                /\ UNCHANGED contractState
          /\ result'.status \in {"Error", "Success"}
          /\ result'.status = "Success" =>
                /\ thresholds' = [upperBound |-> result'.upperBound,
                                  lowerBound |-> result'.lowerBound,
                                  enabled |-> result'.enabled]
                /\ LogExtended
                /\ NewEvents = <<ThresholdConfigured(result'.upperBound, result'.lowerBound,
                                                     result'.enabled)>>
                /\ UNCHANGED <<latestPrice, authorizedApps, authorizedOracles, owner>> ]_vars

\* With thresholds (3, 2, enabled) in place, the owner's call with equal
\* bounds and enabled was rejected.
C12_Witness ==
    /\ result.op = "setThresholds"
    /\ result.sender = owner
    /\ result.enabled
    /\ result.upperBound = result.lowerBound
    /\ result.upperBound > 0
    /\ result.status = "Error"
    /\ thresholds = [upperBound |-> 3, lowerBound |-> 2, enabled |-> TRUE]

\* ------------------------------------------------------------------ C13
\* C13: in every reachable state, if the thresholds are enabled then
\* upperBound > lowerBound.
C13_EnabledBoundsOrdered == thresholds.enabled => thresholds.upperBound > thresholds.lowerBound

\* The owner has configured the thresholds twice, the owner and others have
\* tried bounds that are not ordered, and the thresholds are enabled.
C13_Witness ==
    /\ thresholds.enabled
    /\ Len(EventsNamed(events, "ThresholdConfigured")) = 2
    /\ result.op = "setThresholds"
    /\ result.sender = owner
    /\ result.enabled
    /\ result.upperBound < result.lowerBound
    /\ result.status = "Error"

\* ------------------------------------------------------------------ C14
Mutators == {"setThresholds", "setAppAuthorization", "setOracleAuthorization"}

\* C14: setAppAuthorization, setOracleAuthorization and setThresholds succeed
\* only for the owner: a call by anyone else, an authorized oracle included,
\* fails as unauthorized caller and changes neither authorization set nor the
\* thresholds nor the event log.
C14_OnlyOwnerMutates ==
    [][ (result = NoResult /\ result'.op \in Mutators) =>
          /\ result'.status = "Success" => result'.sender = owner
          /\ result'.sender # owner =>
                /\ result'.status = "OwnableUnauthorizedAccount"
                /\ UNCHANGED contractState ]_vars

\* An authorized oracle tried to authorize another oracle and was rejected.
C14_Witness ==
    /\ result.op = "setOracleAuthorization"
    /\ result.sender = OracleA
    /\ OracleA \in authorizedOracles
    /\ OracleA # owner
    /\ result.oracle = OracleB
    /\ result.authorized
    /\ result.status = "OwnableUnauthorizedAccount"
    /\ OracleB \notin authorizedOracles

\* ------------------------------------------------------------------ C15
\* What the last completed mutation made of the registry, read off the event
\* log: every mutation, the constructor's included, emits its event.
LastAppAuthorization(log, appId) ==
    LET s == SelectSeq(log, LAMBDA e : e.name = "AppAuthorized" /\ e.appId = appId)
    IN  IF s = <<>> THEN FALSE ELSE s[Len(s)].authorized

LastOracleAuthorization(log, oracle) ==
    LET s == SelectSeq(log, LAMBDA e : e.name = "OracleAuthorized" /\ e.oracle = oracle)
    IN  IF s = <<>> THEN FALSE ELSE s[Len(s)].authorized

LastThresholds(log) ==
    LET s == EventsNamed(log, "ThresholdConfigured")
    IN  IF s = <<>> THEN [upperBound |-> 0, lowerBound |-> 0, enabled |-> FALSE]
        ELSE [upperBound |-> s[Len(s)].upperBound, lowerBound |-> s[Len(s)].lowerBound,
              enabled |-> s[Len(s)].enabled]

\* The call r, made at block time t, is valid but, possibly, for the two
\* authorizations: it names app id appId in a fresh matching envelope.
OtherwiseValid(r, t, appId) ==
    /\ r.price # 0
    /\ t <= r.timestamp + MAX_PRICE_AGE
    /\ \E opq \in Opaques : r.attestation = Envelope(appId, t, r.price, r.timestamp, opq)

\* C15: registry mutations take effect for the very next updatePrice call: an
\* otherwise valid call is accepted exactly when the last completed mutation
\* of its submitter and the last one of its producer authorized them, it is
\* rejected for the submitter or else the producer otherwise, and an accepted
\* update is evaluated against the bounds and the enabled flag of the last
\* setThresholds.
C15_MutationsTakeEffect ==
    [][ \A appId \in AppIds :
          (UpdateDone /\ OtherwiseValid(result', blockTimestamp, appId)) =>
            /\ result'.status =
                 IF ~LastOracleAuthorization(events, result'.sender) THEN "UnauthorizedOracle"
                 ELSE IF ~LastAppAuthorization(events, appId) THEN "UnauthorizedApp"
                 ELSE "Success"
            /\ result'.status = "Success" =>
                 EventsNamed(NewEvents, "ThresholdBreached")
                    = ExpectedBreaches(result'.price, LastThresholds(events)) ]_vars

\* OracleA had an update accepted, the owner then deauthorized it, and its
\* next, otherwise valid, call was rejected.
C15_Witness ==
    /\ result.op = "updatePrice"
    /\ result.sender = OracleA
    /\ OtherwiseValid(result, blockTimestamp, AppP1)
    /\ result.status = "UnauthorizedOracle"
    /\ events[Len(events)] = OracleAuthorized(OracleA, FALSE)
    /\ \E i \in 1..Len(events) : events[i].name = "PriceUpdated" /\ events[i].oracle = OracleA

\* ------------------------------------------------------------------ C16
\* C16: an owner call setAppAuthorization(id, b) or
\* setOracleAuthorization(identity, b) sets the membership of exactly that
\* identity to b, leaves every other identity's membership unchanged, emits
\* exactly one AppAuthorized(id, b) / OracleAuthorized(identity, b) event, and
\* repeating the call leaves the membership the same.
C16_AuthorizationSetters ==
    [][ /\ (CallDone("setAppAuthorization") /\ result'.sender = owner) =>
              /\ result'.status = "Success"
              /\ (result'.appId \in authorizedApps') <=> result'.authorized
              /\ \A a \in AppIds \ {result'.appId} :
                    (a \in authorizedApps') <=> (a \in authorizedApps)
              /\ authorizedApps' \subseteq AppIds
              /\ LogExtended
              /\ NewEvents = <<AppAuthorized(result'.appId, result'.authorized)>>
              /\ (events[Len(events)] = AppAuthorized(result'.appId, result'.authorized))
                    => authorizedApps' = authorizedApps
        /\ (CallDone("setOracleAuthorization") /\ result'.sender = owner) =>
              /\ result'.status = "Success"
              /\ (result'.oracle \in authorizedOracles') <=> result'.authorized
              /\ \A o \in Addresses \ {result'.oracle} :
                    (o \in authorizedOracles') <=> (o \in authorizedOracles)
              /\ authorizedOracles' \subseteq Addresses
              /\ LogExtended
              /\ NewEvents = <<OracleAuthorized(result'.oracle, result'.authorized)>>
              /\ (events[Len(events)] = OracleAuthorized(result'.oracle, result'.authorized))
                    => authorizedOracles' = authorizedOracles ]_vars

\* The owner authorized a second app and then deauthorized the first one
\* twice in a row: the first is out, the second still in.
C16_Witness ==
    /\ result.op = "setAppAuthorization"
    /\ result.sender = owner
    /\ result.status = "Success"
    /\ Len(events) >= 5
    /\ events[Len(events)] = AppAuthorized(AppP1, FALSE)
    /\ events[Len(events) - 1] = AppAuthorized(AppP1, FALSE)
    /\ authorizedApps = {AppP2}

\* ------------------------------------------------------------------ C17
\* C17: immediately after deployment with (initialAppId, initialOracle) the
\* deployer is the owner, the authorized apps are {initialAppId}, the
\* authorized oracles are {initialOracle}, so that the owner is an oracle only
\* if it is initialOracle, the record is all zero and the thresholds are
\* (0, 0, disabled).
C17_AfterDeployment ==
    result.op = "constructor" =>
        /\ owner = result.sender
        /\ authorizedApps = {result.initialAppId}
        /\ authorizedOracles = {result.initialOracle}
        /\ (owner \in authorizedOracles) <=> (owner = result.initialOracle)
        /\ latestPrice.price = 0
        /\ latestPrice.timestamp = 0
        /\ latestPrice.oracle = ZeroAddr
        /\ latestPrice.dataHash = ZeroHash
        /\ thresholds = [upperBound |-> 0, lowerBound |-> 0, enabled |-> FALSE]

\* A deployment for the second app id with an initial oracle other than the
\* deployer: the owner is no oracle.
C17_Witness ==
    /\ result.op = "constructor"
    /\ result.initialAppId = AppP2
    /\ result.sender # result.initialOracle
    /\ owner = result.sender
    /\ owner \notin authorizedOracles

\* ------------------------------------------------------------------ C18
\* This step repeats the rejected call recorded in result.
RepeatDone ==
    /\ result.op = "updatePrice"
    /\ result.status # "Success"
    /\ result'.op = "updatePrice"
    /\ result'.sender = result.sender
    /\ result'.price = result.price
    /\ result'.timestamp = result.timestamp
    /\ result'.attestation = result.attestation
    /\ UNCHANGED <<authorizedApps, authorizedOracles, thresholds, owner>>

\* C18 as stated: repeating an identical failing updatePrice call, with no
\* registry mutation in between, fails again and with the identical reason,
\* at whatever later time the repetition is made.
C18_SameReasonAtAnyTime ==
    [][ RepeatDone => result'.status = result.status ]_vars

\* The reason by which a later block may replace reason: that of a check made
\* earlier in the call whose outcome depends on the block time.
LaterReasons(reason) ==
    IF reason = "UnauthorizedApp" THEN {"UnauthorizedApp", "InvalidAttestation", "PriceTooOld"}
    ELSE IF reason = "InvalidAttestation" THEN {"InvalidAttestation", "PriceTooOld"}
    ELSE IF reason = "Panic" THEN {"Panic", "PriceTooOld"}
    ELSE {reason}

\* C18 as amended: the repeated call fails again; with the identical reason
\* when it is repeated at the same block time, and at a later time with that
\* reason or with the reason of an earlier time check that fails by then.
C18_FailsAgain ==
    [][ RepeatDone =>
          /\ result'.status # "Success"
          /\ UNCHANGED contractState
          /\ result'.at = result.at => result'.status = result.status
          /\ result'.status \in LaterReasons(result.status) ]_vars

\* A call rejected for its unauthorized app was repeated 301 s later, when its
\* attestation had become stale, and was rejected as an invalid attestation.
C18_Witness ==
    /\ result.op = "updatePrice"
    /\ result.status = "InvalidAttestation"
    /\ result.at = GenesisTime + ATTESTATION_MAX_AGE + 1
    /\ result.sender \in authorizedOracles
    /\ IsVerifyEnvelope(result.attestation)
    /\ FieldsOf(result.attestation).price = result.price
    /\ FieldsOf(result.attestation).timestamp = result.timestamp
    /\ FieldsOf(result.attestation).attestationTimestamp = GenesisTime - ATTESTATION_MAX_AGE
    /\ FieldsOf(result.attestation).appId \notin authorizedApps

\* ------------------------------------------------------------------ C19
\* This step is an accepted update that follows the accepted update recorded
\* in result, whose record latestPrice still is.
SecondAccepted ==
    /\ result.op = "updatePrice"
    /\ result.status = "Success"
    /\ result'.op = "updatePrice"
    /\ result'.status = "Success"
    /\ IsVerifyEnvelope(result.attestation)
    /\ IsVerifyEnvelope(result'.attestation)

\* The three values the claim says the hash is computed from.
HashedTriple(r) == <<r.price, r.timestamp, FieldsOf(r.attestation).appId>>

\* C19: the dataHash of an accepted update is a function of exactly (price,
\* observedAt, producerId): two accepted updates equal in the three store
\* equal hashes whatever their submitter, source label, attestedAt and proof,
\* and two that differ in one of the three are hashed from different inputs.
C19_HashOfTriple ==
    [][ SecondAccepted =>
          /\ HashedTriple(result') = HashedTriple(result)
                => latestPrice'.dataHash = latestPrice.dataHash
          /\ HashedTriple(result') # HashedTriple(result)
                => /\ latestPrice'.dataHash[2] # latestPrice.dataHash[2]
                   /\ latestPrice'.dataHash # latestPrice.dataHash ]_vars

\* Two accepted updates of the same price, observation time and app id from
\* different oracles stored the same hash; the second carried the longer
\* source label and the empty quote and was attested at the top of the range.
C19_Witness ==
    /\ result.op = "updatePrice"
    /\ result.status = "Success"
    /\ Len(EventsNamed(events, "PriceUpdated")) = 2
    /\ LET e1 == EventsNamed(events, "PriceUpdated")[1]
           e2 == EventsNamed(events, "PriceUpdated")[2]
       IN  /\ e1.oracle # e2.oracle
           /\ <<e1.price, e1.timestamp, e1.appId>> = <<e2.price, e2.timestamp, e2.appId>>
           /\ e1.timestamp # GenesisTime
           /\ latestPrice.dataHash = Keccak256(AbiEncodePacked(e1.price, e1.timestamp, e1.appId))
    /\ FieldsOf(result.attestation).opq = Opaque2
    /\ FieldsOf(result.attestation).attestationTimestamp = Uint256Max - ATTESTATION_MAX_AGE

\* ------------------------------------------------------------------ C20
\* (price, observedAt) of the most recently accepted update according to the
\* event log, (0, 0) if there is none.
LastAccepted(log) ==
    LET s == EventsNamed(log, "PriceUpdated")
    IN  IF s = <<>> THEN <<0, 0>> ELSE <<s[Len(s)].price, s[Len(s)].timestamp>>

\* C20: after any sequence of operations getLatestPrice() returns the (price,
\* observedAt) of the most recently accepted update, or (0, 0) if there is
\* none; these are the first two fields of what getLatestPriceData() returns;
\* and neither getter nor getThresholds changes any state.
C20_Getters ==
    [][ /\ ViewDone("getLatestPrice") =>
              /\ result'.returned = LastAccepted(events)
              /\ result'.returned = <<getLatestPriceData.price, getLatestPriceData.timestamp>>
              /\ UNCHANGED <<contractState, blockTimestamp>>
        /\ ViewDone("getLatestPriceData") =>
              /\ <<result'.returned.price, result'.returned.timestamp>> = LastAccepted(events)
              /\ <<result'.returned.price, result'.returned.timestamp>> = getLatestPrice
              /\ UNCHANGED <<contractState, blockTimestamp>>
        /\ ViewDone("getThresholds") =>
              /\ result'.returned = LastThresholds(events)
              /\ UNCHANGED <<contractState, blockTimestamp>> ]_vars

\* After two accepted updates of different prices
\* getLatestPrice returned the price and the observation time of the second.
C20_Witness ==
    /\ result.op = "getLatestPrice"
    /\ Len(EventsNamed(events, "PriceUpdated")) = 2
    /\ EventsNamed(events, "PriceUpdated")[1].price # EventsNamed(events, "PriceUpdated")[2].price
    /\ result.returned[1] = EventsNamed(events, "PriceUpdated")[2].price
    /\ result.returned[2] = EventsNamed(events, "PriceUpdated")[2].timestamp
    /\ result.returned[2] = blockTimestamp - MAX_PRICE_AGE

\* ------------------------------------------------------------------ C21
\* The record an accepted update writes, read off its PriceUpdated event.
RecordOf(e) ==
    [price |-> e.price, timestamp |-> e.timestamp, oracle |-> e.oracle,
     dataHash |-> Keccak256(AbiEncodePacked(e.price, e.timestamp, e.appId))]

\* C21: under any interleaving of updatePrice calls of several oracles and
\* registry mutations of the owner, the record is the initial all-zero one or
\* exactly the four fields one single accepted updatePrice call wrote, and the
\* thresholds are the initial ones or exactly the triple of one single
\* setThresholds call: no fields of two calls are ever mixed.
C21_RecordOfOneCall ==
    /\ \/ latestPrice = [price |-> 0, timestamp |-> 0, oracle |-> ZeroAddr, dataHash |-> ZeroHash]
       \/ \E i \in 1..Len(events) :
             events[i].name = "PriceUpdated" /\ latestPrice = RecordOf(events[i])
    /\ \/ thresholds = [upperBound |-> 0, lowerBound |-> 0, enabled |-> FALSE]
       \/ \E i \in 1..Len(events) :
             /\ events[i].name = "ThresholdConfigured"
             /\ thresholds = [upperBound |-> events[i].upperBound,
                              lowerBound |-> events[i].lowerBound,
                              enabled |-> events[i].enabled]

\* Two oracles have each had an update accepted, with different prices, and
\* the record is the one of the second.
C21_Witness ==
    /\ Len(EventsNamed(events, "PriceUpdated")) = 2
    /\ EventsNamed(events, "PriceUpdated")[1].oracle = OracleA
    /\ EventsNamed(events, "PriceUpdated")[2].oracle = OracleB
    /\ EventsNamed(events, "PriceUpdated")[1].price # EventsNamed(events, "PriceUpdated")[2].price
    /\ latestPrice = RecordOf(EventsNamed(events, "PriceUpdated")[2])

\* ------------------------------------------------------------------ the decision to submit
\* shouldUpdatePrice(newPrice) of an oracle whose last submitted price is
\* last (Null before the first submission) and whose configured percentage is
\* the Number threshold; !last holds of null and of 0n.
shouldUpdatePrice(last, newPrice, threshold) ==
    IF last = Null \/ last = Some(0)
    THEN TRUE
    ELSE LET oldPrice == NumberOfUnits(last[1])
             currentPrice == NumberOfUnits(newPrice)
             percentageChange ==
                 NumberTimes(MathAbs(NumberDividedBy(NumberMinus(currentPrice, oldPrice),
                                                     oldPrice)), 100)
         IN  NumberGeq(percentageChange, threshold)

\* Prices of the decision, in units of 10^-PriceDecimals.
DecidePrices == {285, 300, 315, 1900, 2000, 2099, 2100}

\* Values of THRESHOLD_PERCENTAGE: unset, or a string.
ThresholdEnvs ==
    {Null, Some(<<"5">>), Some(<<"0">>), Some(<<"0", ".", "0">>), Some(<<"1", "0">>),
     Some(<<"2", ".", "5">>), Some(<<"a", "b", "c">>), Some(<<>>)}

\* An oracle configured from any of these values, before its first submission
\* or after a submission of any of the prices.
InitDecide ==
    /\ Deployed(OwnerAddr, AppP1, OracleA)
    /\ blockTimestamp = GenesisTime
    /\ ticks = 0
    /\ result = NoResult
    /\ \E env \in ThresholdEnvs, last \in {Null} \cup {Some(p) : p \in DecidePrices} :
          /\ thresholdEnv = env
          /\ thresholdPercentage = LoadThresholdPercentage(env)
          /\ isRunning = TRUE
          /\ intervalId = Null
          /\ lastPrice = last
          /\ lastUpdateTime = IF last = Null THEN Null ELSE Some(GenesisTime)
    /\ timers = {}
    /\ starts = 0
    /\ cycles = [i \in 1..MaxCycles |-> Idle]

\* One call of shouldUpdatePrice(newPrice).
decide ==
    /\ result = NoResult
    /\ \E newPrice \in DecidePrices :
          result' = [op |-> "shouldUpdatePrice", newPrice |-> newPrice,
                     returned |-> shouldUpdatePrice(lastPrice, newPrice, thresholdPercentage)]
    /\ UNCHANGED <<contractState, events, blockTimestamp, ticks, offchain, runtime>>

NextDecide == decide

SpecDecide == InitDecide /\ [][NextDecide]_vars

\* |candidate - previous| * 100 >= threshold * previous, computed exactly.
ExactlyAtLeast(previous, candidate, threshold) ==
    LET diff == IF candidate >= previous THEN candidate - previous ELSE previous - candidate
    IN  IF threshold.e >= 0
        THEN diff * 100 >= threshold.m * Pow2(threshold.e) * previous
        ELSE diff * 100 * Pow2(-threshold.e) >= threshold.m * previous

\* This step is one call of shouldUpdatePrice.
DecideDone == result = NoResult /\ result'.op = "shouldUpdatePrice"

\* C22: shouldUpdatePrice returns true when there is no previous price, and
\* otherwise true iff |candidate - previous| * 100 >= thresholdPct * previous
\* on the scaled integers, the boundary included, for rises and falls alike;
\* it leaves the stored last price unchanged.
C22_DecisionIsExact ==
    [][DecideDone =>
         /\ result'.returned =
               (lastPrice = Null
                  \/ ExactlyAtLeast(lastPrice[1], result'.newPrice, thresholdPercentage))
         /\ lastPrice' = lastPrice]_vars

\* THRESHOLD_PERCENTAGE is set to a string that reads as the number 0.
ConfiguredAsZero == ParseFloat(thresholdEnv) = Some(FloatZero)

\* C23: with the percentage configured as 0, every quote passes
\* shouldUpdatePrice, a quote equal to the last submitted price included.
C23_ZeroAlwaysUpdates ==
    [][DecideDone /\ ConfiguredAsZero => result'.returned = TRUE]_vars

\* In log, every ThresholdBreached is directly followed by the PriceUpdated
\* of the same price.
BreachThenUpdated(log) ==
    \A i \in 1..Len(log) :
        log[i].name = "ThresholdBreached" =>
            /\ i < Len(log)
            /\ log[i + 1].name = "PriceUpdated"
            /\ log[i + 1].price = log[i].price

\* C30: an accepted updatePrice writes the record and appends the breach event
\* (if any) and then PriceUpdated, which is the last event of the call; in the
\* log every ThresholdBreached is directly followed by a PriceUpdated of the
\* same price, and there are never more ThresholdBreached than PriceUpdated.
C30_BreachBeforeUpdated ==
    [][/\ BreachThenUpdated(events')
       /\ Len(EventsNamed(events', "ThresholdBreached")) <= Len(EventsNamed(events', "PriceUpdated"))
       /\ UpdateDone /\ result'.status = "Success" =>
             /\ latestPrice'.price = result'.price
             /\ NewEvents # <<>>
             /\ NewEvents[Len(NewEvents)].name = "PriceUpdated"
             /\ NewEvents[Len(NewEvents)].price = result'.price
             /\ \A i \in 1..(Len(NewEvents) - 1) : NewEvents[i].name = "ThresholdBreached"
             /\ Len(NewEvents) <= 2]_vars

\* Reached: an accepted update above the upper bound has written the record
\* and appended its breach event and then PriceUpdated.
C30_Witness ==
    /\ Len(events) >= 2
    /\ events[Len(events) - 1].name = "ThresholdBreached"
    /\ events[Len(events) - 1].isUpper
    /\ events[Len(events)].name = "PriceUpdated"
    /\ latestPrice.price = events[Len(events)].price

\* ------------------------------------------------------------------ four-field envelopes
\* The fields of the envelopes sent: either producer, attested at or around
\* the freshness limit, any payload price and observation time, either source
\* label and proof.
WireFields ==
    [appId : AppIds, attestationTimestamp : AttestationTimes(GenesisTime),
     price : Prices \ {0}, timestamp : ObservationTimes(GenesisTime), opq : Opaques]

WireEnvelope(f) ==
    AbiEncodeEnvelope(f.appId, f.attestationTimestamp,
                      AbiEncodePriceData(f.price, f.timestamp, f.opq.source), f.opq.teeQuote)

\* Every such envelope, as <<envelope, fields>>.
WireTable == {<<WireEnvelope(f), f>> : f \in WireFields}

\* updatePrice with a four-field envelope, by either oracle, for the price and
\* time of the payload or for others.
updatePriceEnveloped ==
    /\ result = NoResult
    /\ \E sender \in {OracleA, OracleB}, price \in Prices \ {0},
          timestamp \in ObservationTimes(GenesisTime), w \in WireTable :
            updatePriceCall(sender, price, timestamp, w[1])
    /\ UNCHANGED runtime

NextWire == updatePriceEnveloped

SpecWire == InitVerify /\ [][NextWire]_vars

\* The call of this step is valid for the envelope fields f.
WireValid(f) ==
    /\ result'.sender \in authorizedOracles
    /\ result'.price = f.price /\ result'.timestamp = f.timestamp
    /\ f.timestamp + MAX_PRICE_AGE <= Uint256Max
    /\ blockTimestamp <= f.timestamp + MAX_PRICE_AGE
    /\ f.attestationTimestamp + ATTESTATION_MAX_AGE <= Uint256Max
    /\ blockTimestamp <= f.attestationTimestamp + ATTESTATION_MAX_AGE
    /\ f.appId \in authorizedApps

Wallet == OracleA
RoflAppId == AppP1

\* 'coingecko' and the placeholder proof.
CoinGecko == Opaque1.source
Proof == Opaque1.teeQuote

\* The slots whose call is in progress, and the first free slot.
Active == {i \in 1..MaxCycles : cycles[i].pc # "idle"}
FreeSlot == CHOOSE i \in 1..MaxCycles : cycles[i].pc = "idle"

\* The log has room for the events of every call in progress and n more: no
\* further call or transaction is started beyond that.
LogRoom(n) == Len(events) + 2 * Cardinality(Active) + n <= MaxEvents

\* fetchAndUpdatePrice() is called while running: it awaits the fetch; awaited
\* tells whether start() awaits it.
Fetching(awaited) ==
    [pc |-> "fetch", awaited |-> awaited, priceData |-> Null, attestation |-> Null,
     attempts |-> 0, receipt |-> Null]

\* The call in slot i returns, or its error is caught and logged; a start()
\* that awaited it goes on and arms the interval timer.
Returned_ClearsTimers(i) ==
    /\ cycles' = [cycles EXCEPT ![i] = Idle]
    /\ IF cycles[i].awaited
       THEN LET id == CHOOSE k \in 1..MaxTimers : k \notin timers
            IN  /\ timers' = timers \cup {id}
                /\ intervalId' = Some(id)
       ELSE /\ timers' = {}
            /\ UNCHANGED intervalId
Returned(i) ==
    /\ cycles' = [cycles EXCEPT ![i] = Idle]
    /\ IF cycles[i].awaited
       THEN LET id == CHOOSE k \in 1..MaxTimers : k \notin timers
            IN  /\ timers' = timers \cup {id}
                /\ intervalId' = Some(id)
       ELSE UNCHANGED <<timers, intervalId>>

\* The call in slot i goes on to its next await.
Continues(i, frame) ==
    /\ cycles' = [cycles EXCEPT ![i] = frame]
    /\ UNCHANGED <<timers, intervalId>>

\* start() is called: nothing when already running, else it awaits
\* verifyContractConnection().
start ==
    /\ ~isRunning
    /\ starts + Cardinality(timers) + Cardinality({i \in Active : cycles[i].awaited}) < MaxTimers
    /\ starts' = starts + 1
    /\ UNCHANGED <<contractState, blockTimestamp, ticks, result, offchain, timers, cycles>>

\* verifyContractConnection() of a pending start() ends: getLatestPrice() has
\* failed and start() throws, or isRunning is set and the initial
\* fetchAndUpdatePrice() is awaited.
verifyContractConnection ==
    /\ starts > 0
    /\ \E connected \in BOOLEAN :
          IF connected
          THEN /\ LogRoom(2)
               /\ Active # 1..MaxCycles
               /\ isRunning' = TRUE
               /\ cycles' = [cycles EXCEPT ![FreeSlot] = Fetching(TRUE)]
          ELSE UNCHANGED <<isRunning, cycles>>
    /\ starts' = starts - 1
    /\ UNCHANGED <<contractState, blockTimestamp, ticks, result, thresholdEnv,
                   thresholdPercentage, intervalId, lastPrice, lastUpdateTime, timers>>

\* stop(): nothing when not running, else clears the timer of intervalId.
stop ==
    /\ isRunning
    /\ isRunning' = FALSE
    /\ IF intervalId # Null
       THEN timers' = timers \ {intervalId[1]} /\ intervalId' = Null
       ELSE UNCHANGED <<timers, intervalId>>
    /\ UNCHANGED <<contractState, blockTimestamp, ticks, result, thresholdEnv,
                   thresholdPercentage, lastPrice, lastUpdateTime, starts, cycles>>

\* An armed timer fires and calls fetchAndUpdatePrice(), which returns at once
\* when the oracle is not running.
timerFires ==
    /\ timers # {}
    /\ isRunning
    /\ LogRoom(2)
    /\ Active # 1..MaxCycles
    /\ cycles' = [cycles EXCEPT ![FreeSlot] = Fetching(FALSE)]
    /\ UNCHANGED <<contractState, blockTimestamp, ticks, result, offchain, timers, starts>>

\* A JSON number with one decimal, and a JSON string.
JsonNumber(neg, whole, tenths) == [kind |-> "number", neg |-> neg, whole |-> whole, tenths |-> tenths]
JsonString(chars) == [kind |-> "string", chars |-> chars]

\* What axios.get ends with: no response, or a response whose
\* data.ethereum?.usd is undefined or a value.
Responses ==
    { Null, Some(Null),
      Some(Some(JsonNumber(FALSE, 0, 0))), Some(Some(JsonNumber(TRUE, 3, 0))),
      Some(Some(JsonNumber(FALSE, 3, 0))), Some(Some(JsonNumber(FALSE, 3, 3))),
      Some(Some(JsonString(<<"0">>))), Some(Some(JsonString(<<"a", "b", "c">>))) }

\* ethers.parseUnits(ethPrice.toString(), 8): Null when it throws.
ParseUnits(ethPrice) ==
    IF ethPrice.kind = "number"
    THEN LET units == ethPrice.whole * (10 ^ PriceDecimals)
                        + ethPrice.tenths * (10 ^ (PriceDecimals - 1))
         IN  Some(IF ethPrice.neg THEN -units ELSE units)
    ELSE LET d == LeadingDigits(ethPrice.chars, 0, 0)
         IN  IF d[2] = Len(ethPrice.chars) THEN Some(d[1] * (10 ^ PriceDecimals)) ELSE Null

\* The price fetchPriceFromCoinGecko returns for a response, Null when it
\* throws: no response, !ethPrice, or parseUnits throws.
FetchedPrice(response) ==
    IF Len(response) = 0 \/ Len(response[1]) = 0
    THEN Null
    ELSE LET ethPrice == response[1][1]
         IN  IF ethPrice.kind = "number" /\ ethPrice.whole = 0 /\ ethPrice.tenths = 0
             THEN Null
             ELSE IF ethPrice.kind = "string" /\ ethPrice.chars = <<>>
             THEN Null
             ELSE ParseUnits(ethPrice)

\* The fetch of the call in slot i ends in response: on a price that
\* shouldUpdatePrice lets pass, the call goes on to generateAttestation.
fetchPriceFromCoinGecko(i, response) ==
    /\ cycles[i].pc = "fetch"
    /\ LET price == FetchedPrice(response)
       IN  IF price # Null /\ shouldUpdatePrice(lastPrice, price[1], thresholdPercentage)
           THEN Continues(i, [cycles[i] EXCEPT
                                !.pc = "attest",
                                !.priceData = Some([price |-> price[1],
                                                    timestamp |-> blockTimestamp,
                                                    source |-> CoinGecko])])
           ELSE Returned(i)
    /\ UNCHANGED <<contractState, blockTimestamp, ticks, result, thresholdEnv,
                   thresholdPercentage, isRunning, lastPrice, lastUpdateTime, starts>>

\* attest(quote, producerId) at time now: the envelope of the quote, stamped now.
Attest(priceData, producerId, now) ==
    AbiEncodeEnvelope(producerId, now,
                      AbiEncodePriceData(priceData.price, priceData.timestamp, priceData.source),
                      Proof)

\* generateAttestation of the call in slot i ends: with an envelope, or, as for
\* a price no uint256 holds, with an error.
generateAttestation(i, ok) ==
    /\ cycles[i].pc = "attest"
    /\ IF ok /\ cycles[i].priceData[1].price >= 0
       THEN Continues(i, [cycles[i] EXCEPT
                            !.pc = "estimateGas",
                            !.attempts = 1,
                            !.attestation = Some(Attest(cycles[i].priceData[1], RoflAppId,
                                                        blockTimestamp))])
       ELSE Returned(i)
    /\ UNCHANGED <<contractState, blockTimestamp, ticks, result, thresholdEnv,
                   thresholdPercentage, isRunning, lastPrice, lastUpdateTime, starts>>

\* What updatePrice would do now with the arguments of frame.
Simulated(frame) ==
    updatePriceOutcome(Wallet, frame.priceData[1].price, frame.priceData[1].timestamp,
                       frame.attestation[1])

\* contract.updatePrice.estimateGas of the call in slot i ends: with an
\* estimate, or with an error when the node is not reached or the call would
\* revert; submitPriceUpdate logs the error and throws it on.
estimateGas(i, reached) ==
    /\ cycles[i].pc = "estimateGas"
    /\ IF reached /\ Simulated(cycles[i]).status = "Success"
       THEN Continues(i, [cycles[i] EXCEPT !.pc = "send"])
       ELSE Returned(i)
    /\ UNCHANGED <<contractState, blockTimestamp, ticks, result, thresholdEnv,
                   thresholdPercentage, isRunning, lastPrice, lastUpdateTime, starts>>

\* contract.updatePrice(..) of the call in slot i ends: the transaction is
\* sent and tx.wait() awaited, or the node is not reached and the error is
\* logged and thrown on.
sendTransaction_Retries(i, reached) ==
    /\ cycles[i].pc = "send"
    /\ IF reached
       THEN Continues(i, [cycles[i] EXCEPT !.pc = "wait"])
       ELSE IF cycles[i].attempts < 2
       THEN Continues(i, [cycles[i] EXCEPT !.pc = "estimateGas", !.attempts = @ + 1])
       ELSE Returned(i)
    /\ UNCHANGED <<contractState, blockTimestamp, ticks, result, thresholdEnv,
                   thresholdPercentage, isRunning, lastPrice, lastUpdateTime, starts>>
sendTransaction(i, reached) ==
    /\ cycles[i].pc = "send"
    /\ IF reached
       THEN Continues(i, [cycles[i] EXCEPT !.pc = "wait"])
       ELSE Returned(i)
    /\ UNCHANGED <<contractState, blockTimestamp, ticks, result, thresholdEnv,
                   thresholdPercentage, isRunning, lastPrice, lastUpdateTime, starts>>

\* The transaction of the call in slot i is executed.
mine(i) ==
    /\ cycles[i].pc = "wait"
    /\ cycles[i].receipt = Null
    /\ updatePriceCall(Wallet, cycles[i].priceData[1].price, cycles[i].priceData[1].timestamp,
                       cycles[i].attestation[1])
    /\ cycles' = [cycles EXCEPT ![i].receipt = Some(Simulated(cycles[i]).status)]
    /\ UNCHANGED <<timers, starts>>

\* tx.wait() of the call in slot i ends: with the receipt of the executed
\* transaction, after which lastPrice and lastUpdateTime are assigned, or with
\* an error (the transaction reverted, or the node is not reached).
wait_Unconfirmed(i, reached) ==
    /\ cycles[i].pc = "wait"
    /\ cycles[i].receipt # Null
    /\ IF reached
       THEN /\ lastPrice' = Some(cycles[i].priceData[1].price)
            /\ lastUpdateTime' = Some(cycles[i].priceData[1].timestamp)
       ELSE UNCHANGED <<lastPrice, lastUpdateTime>>
    /\ Returned(i)
    /\ UNCHANGED <<contractState, blockTimestamp, ticks, result, thresholdEnv,
                   thresholdPercentage, isRunning, starts>>
wait(i, reached) ==
    /\ cycles[i].pc = "wait"
    /\ cycles[i].receipt # Null
    /\ IF reached /\ cycles[i].receipt = Some("Success")
       THEN /\ lastPrice' = Some(cycles[i].priceData[1].price)
            /\ lastUpdateTime' = Some(cycles[i].priceData[1].timestamp)
       ELSE UNCHANGED <<lastPrice, lastUpdateTime>>
    /\ Returned(i)
    /\ UNCHANGED <<contractState, blockTimestamp, ticks, result, thresholdEnv,
                   thresholdPercentage, isRunning, starts>>

\* Time passes: block.timestamp and Date.now() are later by more than the
\* freshness window.
timePasses ==
    /\ ticks < MaxTicks
    /\ blockTimestamp' = blockTimestamp + ATTESTATION_MAX_AGE + 1
    /\ ticks' = ticks + 1
    /\ UNCHANGED <<contractState, result, offchain, runtime>>

\* The owner configures thresholds between the two prices fetched, or sets
\* the authorization of the oracle's app id or wallet.
ownerMutates ==
    /\ LogRoom(1)
    /\ \E op \in {"setThresholds", "setAppAuthorization", "setOracleAuthorization"},
          flag \in BOOLEAN :
          CASE op = "setThresholds" ->
                 setThresholdsCall(OwnerAddr, 3 * (10 ^ PriceDecimals) + 1,
                                   3 * (10 ^ PriceDecimals), flag)
            [] op = "setAppAuthorization" -> setAppAuthorizationCall(OwnerAddr, RoflAppId, flag)
            [] op = "setOracleAuthorization" -> setOracleAuthorizationCall(OwnerAddr, Wallet, flag)

InitOracle ==
    /\ Deployed(OwnerAddr, RoflAppId, Wallet)
    /\ NewPriceOracle(Null)
    /\ blockTimestamp = GenesisTime
    /\ ticks = 0
    /\ result = NoResult

NextOracle ==
    \/ start
    \/ verifyContractConnection
    \/ stop
    \/ timerFires
    \/ \E i \in 1..MaxCycles, response \in Responses : fetchPriceFromCoinGecko(i, response)
    \/ \E i \in 1..MaxCycles, ok \in BOOLEAN : generateAttestation(i, ok)
    \/ \E i \in 1..MaxCycles, reached \in BOOLEAN : estimateGas(i, reached)
    \/ \E i \in 1..MaxCycles, reached \in BOOLEAN : sendTransaction(i, reached)
    \/ \E i \in 1..MaxCycles : mine(i)
    \/ \E i \in 1..MaxCycles, reached \in BOOLEAN : wait(i, reached)
    \/ timePasses
    \/ ownerMutates

SpecOracle == InitOracle /\ [][NextOracle]_vars

\* The awaits of submitPriceUpdate.
SubmitPcs == {"estimateGas", "send", "wait"}

\* In this step the sending of the transaction of slot i fails: the node is
\* not reached.
SendFails(i) ==
    cycles[i].pc = "send" /\ cycles'[i] # cycles[i] /\ cycles'[i].pc # "wait"

C26_OneSubmissionInFlight ==
    Cardinality({i \in 1..MaxCycles : cycles[i].pc = "wait" /\ ~cycles[i].awaited}) <= 1

\* C27: every price fetchPriceFromCoinGecko returns is > 0, so the price of
\* every call that has passed the fetch (and goes on to shouldUpdatePrice's
\* verdict, generateAttestation and submitPriceUpdate) is > 0.
C27_QuotesArePositive ==
    \A i \in Active : cycles[i].priceData # Null => cycles[i].priceData[1].price > 0

\* In this step the transaction of a call of fetchAndUpdatePrice is executed.
MineStep ==
    \E i \in 1..MaxCycles :
        /\ cycles[i].pc = "wait" /\ cycles[i].receipt = Null
        /\ cycles'[i].pc = "wait" /\ cycles'[i].receipt # Null

\* C28: each operation writes only its own part of the contract's state. The
\* owner never changes; thresholds change only in a successful setThresholds,
\* authorizedApps only in a successful setAppAuthorization, authorizedOracles
\* only in a successful setOracleAuthorization and latestPrice only in an
\* accepted updatePrice, each leaving the other parts as they were; and a
\* step of the off-chain oracle changes none of them unless it is the
\* execution of an updatePrice transaction it has sent.
C28_OwnPartOnly ==
    [][/\ owner' = owner
       /\ thresholds' # thresholds =>
             /\ result'.op = "setThresholds" /\ result'.status = "Success"
             /\ UNCHANGED <<latestPrice, authorizedApps, authorizedOracles>>
       /\ authorizedApps' # authorizedApps =>
             /\ result'.op = "setAppAuthorization" /\ result'.status = "Success"
             /\ UNCHANGED <<latestPrice, thresholds, authorizedOracles>>
       /\ authorizedOracles' # authorizedOracles =>
             /\ result'.op = "setOracleAuthorization" /\ result'.status = "Success"
             /\ UNCHANGED <<latestPrice, thresholds, authorizedApps>>
       /\ latestPrice' # latestPrice =>
             /\ result'.op = "updatePrice" /\ result'.status = "Success"
             /\ UNCHANGED <<thresholds, authorizedApps, authorizedOracles>>
             /\ MineStep
       /\ <<offchain, runtime>>' # <<offchain, runtime>> /\ ~MineStep =>
             UNCHANGED contractState]_vars

\* Reached: the owner has configured thresholds, the authorization sets are
\* as deployed, and an update sent by the off-chain oracle has been stored
\* and confirmed to it.
C28_Witness ==
    /\ thresholds.upperBound > 0
    /\ latestPrice.price > 0
    /\ lastPrice = Some(latestPrice.price)
    /\ authorizedApps = {RoflAppId}
    /\ authorizedOracles = {Wallet}

\* ------------------------------------------------------------------ a fair environment
\* The oracle alone with the contract: it is started and never stopped, and
\* the owner leaves the registry as deployed.
NextFair ==
    \/ start
    \/ verifyContractConnection
    \/ timerFires
    \/ \E i \in 1..MaxCycles, response \in Responses : fetchPriceFromCoinGecko(i, response)
    \/ \E i \in 1..MaxCycles, ok \in BOOLEAN : generateAttestation(i, ok)
    \/ \E i \in 1..MaxCycles, reached \in BOOLEAN : estimateGas(i, reached)
    \/ \E i \in 1..MaxCycles, reached \in BOOLEAN : sendTransaction(i, reached)
    \/ \E i \in 1..MaxCycles : mine(i)
    \/ \E i \in 1..MaxCycles, reached \in BOOLEAN : wait(i, reached)
    \/ timePasses

\* What the environment of the oracle grants. An armed timer keeps firing and
\* every await ends (weak fairness of each step). A transaction that is sent
\* is executed. An await that can end well again and again does end well again
\* and again (strong fairness): the fetch that answers 3.0 while nothing is
\* confirmed, the attestation of a price above 0, the gas estimate of a call
\* the contract would accept, and the sending. Where a step's enabling
\* condition calls the contract or the decision, the fairness formula is
\* written out with that condition as a state predicate.
Fairness ==
    /\ WF_vars(timerFires)
    /\ WF_vars(\E i \in 1..MaxCycles, response \in Responses : fetchPriceFromCoinGecko(i, response))
    /\ WF_vars(\E i \in 1..MaxCycles, ok \in BOOLEAN : generateAttestation(i, ok))
    /\ WF_vars(\E i \in 1..MaxCycles, reached \in BOOLEAN : estimateGas(i, reached))
    /\ WF_vars(\E i \in 1..MaxCycles, reached \in BOOLEAN : sendTransaction(i, reached))
    /\ WF_vars(\E i \in 1..MaxCycles, reached \in BOOLEAN : wait(i, reached))
    /\ \/ []<>(\A i \in 1..MaxCycles : ~(cycles[i].pc = "wait" /\ cycles[i].receipt = Null))
       \/ []<><<\E i \in 1..MaxCycles : mine(i)>>_vars
    /\ \/ <>[](\A i \in 1..MaxCycles : ~(cycles[i].pc = "fetch" /\ lastPrice = Null))
       \/ []<><<\E i \in 1..MaxCycles :
                   /\ fetchPriceFromCoinGecko(i, Some(Some(JsonNumber(FALSE, 3, 0))))
                   /\ cycles'[i].pc = "attest">>_vars
    /\ SF_vars(\E i \in 1..MaxCycles :
                  /\ generateAttestation(i, TRUE)
                  /\ cycles[i].priceData[1].price > 0)
    /\ \/ <>[](\A i \in 1..MaxCycles :
                 ~(cycles[i].pc = "estimateGas" /\ Simulated(cycles[i]).status = "Success"))
       \/ []<><<\E i \in 1..MaxCycles :
                   /\ estimateGas(i, TRUE)
                   /\ cycles'[i].pc = "send">>_vars
    /\ SF_vars(\E i \in 1..MaxCycles : sendTransaction(i, TRUE))

SpecFair == InitOracle /\ [][NextFair]_vars /\ Fairness

\* In this step the call in slot i ends without a confirmed update: it has
\* failed at one of its awaits, or shouldUpdatePrice has declined.
EndsUnconfirmed(i) ==
    /\ cycles[i].pc # "idle"
    /\ cycles'[i] = Idle
    /\ ~(cycles[i].pc = "wait" /\ cycles[i].receipt = Some("Success")
           /\ lastPrice' = Some(cycles[i].priceData[1].price))

\* C25: a call of fetchAndUpdatePrice that fails at any await (fetch,
\* attestation, gas estimate, sending, confirmation) leaves the oracle
\* running, its timer armed (the initial call of start() is followed by the
\* arming) and lastPrice and lastUpdateTime as they were; and with a fair
\* environment a running oracle eventually has a price above 0 committed to
\* the contract.
C25_FailuresDoNotStop ==
    /\ [][\A i \in 1..MaxCycles :
             EndsUnconfirmed(i) =>
                /\ isRunning /\ isRunning'
                /\ timers' # {} /\ timers \subseteq timers'
                /\ UNCHANGED <<lastPrice, lastUpdateTime>>]_vars
    /\ (isRunning ~> (latestPrice.price > 0))

\* Reached: a transaction of the oracle was rejected by the contract, no
\* call is in progress, the oracle is running with its timer armed, and
\* nothing is committed yet.
C25_Witness ==
    /\ result.op = "updatePrice"
    /\ result.status # "Success"
    /\ Active = {}
    /\ isRunning
    /\ intervalId # Null
    /\ intervalId[1] \in timers
    /\ lastPrice = Null
    /\ latestPrice.price = 0

\* ------------------------------------------------------------------ the last committed price
\* The updates of the oracle's wallet that the log records as accepted.
CommittedQuotes ==
    {<<events[k].price, events[k].timestamp>> :
        k \in {n \in 1..Len(events) : events[n].name = "PriceUpdated" /\ events[n].oracle = Wallet}}

\* In this step tx.wait() of slot i returns the receipt of an accepted update.
Confirms(i) ==
    /\ cycles[i].pc = "wait"
    /\ cycles[i].receipt = Some("Success")
    /\ cycles'[i] = Idle

\* C31: lastPrice and lastUpdateTime change only in a step in which tx.wait()
\* returns the receipt of an accepted update, and then to the price and time
\* of that call's quote; every other step of a call, whether it goes on, fails
\* or declines, leaves both as they were. So whenever lastPrice is set, it and
\* lastUpdateTime are the price and time of an update of this wallet that the
\* contract accepted; and a call goes on from the fetch to the attestation
\* only with a price that shouldUpdatePrice lets pass against lastPrice.
C31_AssignedAfterConfirmation ==
    /\ [][<<lastPrice, lastUpdateTime>>' # <<lastPrice, lastUpdateTime>> =>
             \E i \in 1..MaxCycles :
                 /\ Confirms(i)
                 /\ lastPrice' = Some(cycles[i].priceData[1].price)
                 /\ lastUpdateTime' = Some(cycles[i].priceData[1].timestamp)]_vars
    /\ [][\A i \in 1..MaxCycles :
             cycles[i].pc = "fetch" /\ cycles'[i].pc = "attest" =>
                shouldUpdatePrice(lastPrice, cycles'[i].priceData[1].price,
                                  thresholdPercentage)]_vars
    /\ [](lastPrice # Null =>
             /\ lastUpdateTime # Null
             /\ <<lastPrice[1], lastUpdateTime[1]>> \in CommittedQuotes)

\* Reached: a first quote is committed and confirmed, a later call with
\* another quote has had its transaction rejected and has ended, and
\* lastPrice is still the first quote.
C31_Witness ==
    /\ lastPrice = Some(3 * (10 ^ PriceDecimals))
    /\ result.op = "updatePrice"
    /\ result.status # "Success"
    /\ result.price # lastPrice[1]
    /\ Active = {}

\* ------------------------------------------------------------------ the opaque fields
\* The envelope of att with its source label, TEE quote and signature replaced
\* by those of opq.
WithOpaque(att, opq) ==
    LET f == FieldsOf(att)
    IN  Envelope(f.appId, f.attestationTimestamp, f.price, f.timestamp, opq)

\* C32: the outcome of updatePrice does not depend on the source label, the
\* TEE quote or the signature of the envelope: whenever a call with a
\* well-formed envelope is executed, the same call in the same state with the
\* envelope that differs only in those three fields ends with the same status
\* (accepted, or rejected for the same reason) and, when accepted, stores the
\* same record and emits the same events.
C32_OpaqueFieldsIgnored ==
    [][UpdateDone /\ IsVerifyEnvelope(result'.attestation) =>
          \A opq \in Opaques \ {FieldsOf(result'.attestation).opq} :
             LET r == result'
                 other == updatePriceOutcome(r.sender, r.price, r.timestamp,
                                             WithOpaque(r.attestation, opq))
             IN  /\ other.status = r.status
                 /\ latestPrice' = StoredPrice(other, r.sender, r.price, r.timestamp)
                 /\ events' = IF other.status = "Success"
                              THEN events \o EmittedEvents(r.price, r.timestamp, r.sender,
                                                           other.appId)
                              ELSE events]_vars

\* Reached: a call whose envelope carries an empty TEE quote and the second
\* source label and signature has been accepted.
C32_Witness ==
    /\ result.op = "updatePrice"
    /\ result.status = "Success"
    /\ IsVerifyEnvelope(result.attestation)
    /\ FieldsOf(result.attestation).opq = Opaque2
    /\ WithOpaque(result.attestation, Opaque1) # result.attestation
    /\ latestPrice.price = result.price

\* ------------------------------------------------------------------ an update sent again
\* The positions of the PriceUpdated events of log.
UpdatePositions(log) == {n \in 1..Len(log) : log[n].name = "PriceUpdated"}

\* C33: updatePrice enforces no order and no single use of observations: a
\* call whose update the log already records as accepted (same price,
\* observation time, oracle and app id), made again with a fresh matching
\* envelope while the observation is within MAX_PRICE_AGE and oracle and app
\* are authorized, is accepted again and overwrites the record with its
\* values, also when the record holds a later observation time.
C33_ReplayAccepted ==
    [][ \A appId \in AppIds :
          ( /\ UpdateDone
            /\ OtherwiseValid(result', blockTimestamp, appId)
            /\ result'.sender \in authorizedOracles
            /\ appId \in authorizedApps
            /\ \E n \in UpdatePositions(events) :
                  events[n] = PriceUpdated(result'.price, result'.timestamp,
                                           result'.sender, appId) )
          => /\ result'.status = "Success"
             /\ latestPrice' = [price |-> result'.price, timestamp |-> result'.timestamp,
                                oracle |-> result'.sender,
                                dataHash |-> Keccak256(AbiEncodePacked(result'.price,
                                                                       result'.timestamp, appId))]
             /\ events'[Len(events')] = PriceUpdated(result'.price, result'.timestamp,
                                                     result'.sender, appId) ]_vars

\* Reached: an update, then one with a later observation time, then the first
\* one again were accepted, and the record holds the earlier observation time.
C33_Witness ==
    \E k, m, n \in UpdatePositions(events) :
        /\ k < m /\ m < n
        /\ events[n] = events[k]
        /\ events[m].timestamp > events[k].timestamp
        /\ n = Len(events)
        /\ latestPrice.timestamp = events[k].timestamp
        /\ latestPrice.timestamp < events[m].timestamp

\* ------------------------------------------------------------------ one timer
\* C34: at most one interval timer of the oracle is armed at any time,
\* whatever the order in which start() and stop() are called and their
\* awaits end.
C34_OneTimer == Cardinality(timers) <= 1

\* ------------------------------------------------------------------ events and the view agree
\* C35: an accepted updatePrice(price, ..) emits a ThresholdBreached event
\* exactly when isPriceWithinThresholds(price) is false under the thresholds
\* of that call; a price equal to either bound emits none and is within.
C35_BreachIffNotWithin ==
    [][ (UpdateDone /\ result'.status = "Success") =>
          /\ (EventsNamed(NewEvents, "ThresholdBreached") # <<>>)
                <=> ~isPriceWithinThresholds(result'.price)
          /\ (thresholds.enabled /\ result'.price \in {thresholds.upperBound, thresholds.lowerBound})
                => /\ EventsNamed(NewEvents, "ThresholdBreached") = <<>>
                   /\ isPriceWithinThresholds(result'.price) ]_vars

\* Reached: under enabled thresholds a price equal to the lower bound was
\* accepted with no breach event, and the view reports it within.
C35_Witness ==
    /\ result.op = "updatePrice"
    /\ result.status = "Success"
    /\ thresholds.enabled
    /\ result.price = thresholds.lowerBound
    /\ isPriceWithinThresholds(result.price)
    /\ events[Len(events)].name = "PriceUpdated"
    /\ events[Len(events) - 1].name = "ThresholdConfigured"

\* ------------------------------------------------------------------ the log and the record
\* C36: the PriceUpdated events of the log are, in order, the accepted
\* updatePrice calls: a step appends one, carrying the call's price,
\* observation time, sender and app id, exactly when it is an accepted call,
\* and no step removes or reorders them; and once there is one, the record is
\* the price, observation time and oracle of the last of them with the hash of
\* its price, observation time and app id (before, the record is all zero).
C36_LogReconstructsRecord ==
    /\ [][ IF UpdateDone /\ result'.status = "Success"
           THEN \E appId \in AppIds :
                   EventsNamed(events', "PriceUpdated")
                      = Append(EventsNamed(events, "PriceUpdated"),
                               PriceUpdated(result'.price, result'.timestamp,
                                            result'.sender, appId))
           ELSE EventsNamed(events', "PriceUpdated") = EventsNamed(events, "PriceUpdated") ]_vars
    /\ [](LET s == EventsNamed(events, "PriceUpdated")
          IN  IF s = <<>>
              THEN latestPrice = [price |-> 0, timestamp |-> 0, oracle |-> ZeroAddr,
                                  dataHash |-> ZeroHash]
              ELSE latestPrice = RecordOf(s[Len(s)]))

\* Reached: two different updates were accepted, a third call was rejected,
\* and the record is the one of the second PriceUpdated event.
C36_Witness ==
    /\ result.op = "updatePrice"
    /\ result.status # "Success"
    /\ Len(EventsNamed(events, "PriceUpdated")) = 2
    /\ EventsNamed(events, "PriceUpdated")[1] # EventsNamed(events, "PriceUpdated")[2]
    /\ latestPrice = RecordOf(EventsNamed(events, "PriceUpdated")[2])
    /\ latestPrice.price # result.price

\* ------------------------------------------------------------------ bounds stay ordered
\* C37: the owner's setThresholds with upperBound <= lowerBound is rejected
\* whatever the enabled flag, and changes nothing; so in every state the
\* thresholds are the initial (0, 0, disabled) or have upperBound >
\* lowerBound, enabled or not.
C37_BoundsAlwaysOrdered ==
    /\ [][ (CallDone("setThresholds") /\ result'.sender = owner
              /\ result'.upperBound <= result'.lowerBound) =>
                /\ result'.status = "Error"
                /\ UNCHANGED contractState ]_vars
    /\ [](\/ thresholds = [upperBound |-> 0, lowerBound |-> 0, enabled |-> FALSE]
          \/ thresholds.upperBound > thresholds.lowerBound)

\* Reached: with enabled thresholds in place, the owner's call
\* setThresholds(0, 0, false) was rejected and the thresholds are still
\* enabled.
C37_Witness ==
    /\ result.op = "setThresholds"
    /\ result.sender = owner
    /\ result.upperBound = 0
    /\ result.lowerBound = 0
    /\ ~result.enabled
    /\ result.status = "Error"
    /\ thresholds.enabled
    /\ thresholds.upperBound > thresholds.lowerBound

\* ------------------------------------------------------------------ times in the future
\* The observation time or the attestation time of call r lies after block
\* time t.
InFuture(r, t) ==
    r.timestamp > t \/ FieldsOf(r.attestation).attestationTimestamp > t

\* C38 as stated: both time checks of updatePrice are one-sided. A call whose
\* observation time or attestation time lies after block.timestamp, and which
\* is valid otherwise, is accepted and the record takes the future
\* observation time; and a call whose observation time plus MAX_PRICE_AGE
\* leaves the uint256 range reverts and commits nothing.
C38_FutureTimesAccepted ==
    [][ (UpdateDone /\ IsVerifyEnvelope(result'.attestation)) =>
          /\ ( /\ InFuture(result', blockTimestamp)
               /\ ValidInputs(result', blockTimestamp)
               /\ result'.timestamp + MAX_PRICE_AGE <= Uint256Max )
                => /\ AcceptedAs(result', FieldsOf(result'.attestation).appId)
                   /\ latestPrice'.timestamp = result'.timestamp
          /\ result'.timestamp + MAX_PRICE_AGE > Uint256Max
                => /\ result'.status # "Success"
                   /\ UNCHANGED contractState ]_vars

\* C38, amended: a call whose observation time or attestation time lies after
\* block.timestamp, and which is valid otherwise with both sums (observation
\* time plus MAX_PRICE_AGE, attestation time plus 300) inside the uint256
\* range, is accepted and the record takes the future observation time. A
\* call for which one of the two sums leaves the range is never accepted and
\* changes nothing: when it is valid otherwise it ends in the arithmetic
\* panic, and so does every call of an authorized oracle with a price above 0
\* whose observation time plus MAX_PRICE_AGE leaves the range.
C38_OneSidedTimeChecksInRange ==
    [][ (UpdateDone /\ IsVerifyEnvelope(result'.attestation)) =>
          /\ ( /\ InFuture(result', blockTimestamp)
               /\ ValidInputs(result', blockTimestamp)
               /\ SumsInRange(result') )
                => /\ AcceptedAs(result', FieldsOf(result'.attestation).appId)
                   /\ latestPrice'.timestamp = result'.timestamp
          /\ result'.timestamp + MAX_PRICE_AGE > Uint256Max
                => /\ result'.status # "Success"
                   /\ UNCHANGED contractState
                   /\ (result'.sender \in authorizedOracles /\ result'.price > 0)
                         => result'.status = "Panic"
          /\ (ValidInputs(result', blockTimestamp) /\ ~SumsInRange(result'))
                => /\ result'.status = "Panic"
                   /\ UNCHANGED contractState ]_vars

\* Reached: an update observed and attested after the block time was
\* accepted, and the record holds the future observation time.
C38_Witness ==
    /\ result.op = "updatePrice"
    /\ result.status = "Success"
    /\ IsVerifyEnvelope(result.attestation)
    /\ result.timestamp > blockTimestamp
    /\ FieldsOf(result.attestation).attestationTimestamp > blockTimestamp
    /\ latestPrice.timestamp = result.timestamp
    /\ latestPrice.timestamp > blockTimestamp

\* ------------------------------------------------------------------ stopping
\* C39: when stop() returns on a running oracle no interval timer of the
\* oracle is armed any more; no call of fetchAndUpdatePrice begins its fetch
\* while the oracle is stopped; and a call in progress when stop() runs is
\* left alone (stop() changes no call's position, and only the end of a
\* confirmation assigns lastPrice, stopped or not).
C39_StopClearsTimer ==
    /\ [][(isRunning /\ ~isRunning') =>
              /\ timers' = {}
              /\ intervalId' = Null
              /\ UNCHANGED <<cycles, lastPrice, lastUpdateTime, contractState>>]_vars
    /\ [][\A i \in 1..MaxCycles :
              (cycles[i].pc = "idle" /\ cycles'[i].pc # "idle") => isRunning']_vars

====
